---- MODULE Spec2Model ----
(***************************************************************************)
(* Model of AnomalyDetectionService (services/analytics/anomaly_service.py)*)
(* : fuzzy duplicate detection over a bounded deque of receipt profiles,   *)
(* amount outlier detectors over bounded per-vendor and global history     *)
(* windows, and the rule engine; and of NormalizationService               *)
(* (services/extraction/normalization_service.py): the bounded vendor      *)
(* lexicon and the field conversions.                                      *)
(*                                                                         *)
(* Conventions.  Amounts are integers counted in tenths (100.3 is 1003).   *)
(* A string is a sequence of one-character strings.  A datetime is a       *)
(* number of half days (day * 2 + half) plus a flag telling whether it     *)
(* carries a UTC offset.  An optional value is a record with a `some'      *)
(* field.                                                                  *)
(***************************************************************************)
EXTENDS Integers, Sequences, FiniteSets, TLC

VARIABLES
    duplicate_profiles,     \* self.duplicate_profiles : deque of profiles
    deque_state,            \* mutation counter of that deque (CPython deque.state)
    global_amount_history,  \* self.global_amount_history : deque of amounts
    vendor_amount_history,  \* self.vendor_amount_history : vendor key -> deque
    result,                 \* outcome of the latest completed analyze call
    ncalls,                 \* number of analyze calls made so far
    threads,                \* the in-flight analyze calls (concurrent runs)
    vendor_lexicon,         \* NormalizationService.vendor_lexicon : alias -> canonical
    norm_result,            \* outcome of the latest NormalizationService call
    probe,                  \* latest application of a detector or conversion
    settings,               \* self.settings of the engine: its capacities
    lookups                 \* the in-flight _canonicalize_vendor calls (concurrent runs)

vars == << duplicate_profiles, deque_state, global_amount_history,
           vendor_amount_history, result, ncalls, threads,
           vendor_lexicon, norm_result, probe, settings, lookups >>

normalizer == << vendor_lexicon, norm_result, probe, settings, lookups >>

engine == << duplicate_profiles, deque_state, global_amount_history,
             vendor_amount_history >>

-----------------------------------------------------------------------------
(* Bounds of the model.  The three capacities are the program's capacities *)
(* (2000, 100, 500) scaled down so that overflow happens within a run.     *)

DUPLICATE_BUFFER_LIMIT == 2
anomaly_vendor_history_limit == 5
anomaly_global_history_limit == 6
MaxCalls == 3
MaxHistCalls == 8
MaxDocs == 2
MaxThreads == 3
MaxMadLen == 8
MaxMlLen == 26
vendor_cache_limit == 2
MaxLookupThreads == 2
MaxLookupCalls == 4

(* Program constants, in the model's units.                                *)
anomaly_duplicate_vendor_similarity == 88
anomaly_duplicate_amount_tolerance == 5
anomaly_duplicate_date_tolerance_days == 3
TaxTolerance == 5
SigmaNum == 5
SigmaDen == 2
MadCutoff == 51891
TaxRatioUpperPct == 17
TaxRatioLowerPct == 0
LowRatioFloor == 2000
MealCeiling == 20000
ZScoreMinSamples == 5
MadMinSamples == 8
anomaly_ml_min_samples == 25
enable_anomaly_ml == FALSE
IsolationForestAvailable == TRUE
CanonicalScore == 90

-----------------------------------------------------------------------------
(* Values.                                                                 *)

None == [some |-> FALSE, v |-> 0]
Some(x) == [some |-> TRUE, v |-> x]

(* An optional string.                                                    *)
NoneStr == [some |-> FALSE, s |-> << >>]
SomeStr(s) == [some |-> TRUE, s |-> s]

NoDate == [some |-> FALSE, t |-> 0, aware |-> FALSE]
DateTime(t, aware) == [some |-> TRUE, t |-> t, aware |-> aware]

(* One value of the input mapping: absent, a number, or a string.  A date  *)
(* string is given by the format it is written in and the instant it       *)
(* denotes.                                                                *)
Absent == [k |-> "absent", n |-> 0, s |-> << >>, fmt |-> "", t |-> 0]
Num(n) == [k |-> "num", n |-> n, s |-> << >>, fmt |-> "", t |-> 0]
Str(s) == [k |-> "str", n |-> 0, s |-> s, fmt |-> "", t |-> 0]
DateStr(fmt, t) == [k |-> "str", n |-> 0, s |-> << >>, fmt |-> fmt, t |-> t]

Abs(x) == IF x < 0 THEN -x ELSE x
Min(a, b) == IF a < b THEN a ELSE b
Max(a, b) == IF a < b THEN b ELSE a

Last(s) == s[Len(s)]
LastN(s, n) == SubSeq(s, Len(s) - Min(n, Len(s)) + 1, Len(s))

MapChars(s, F(_)) == [i \in 1..Len(s) |-> F(s[i])]

-----------------------------------------------------------------------------
(* Strings: str.lower, str.isalnum, str.strip.                             *)

Lower(c) ==
    CASE c = "A" -> "a"
      [] c = "B" -> "b"
      [] c = "C" -> "c"
      [] c = "F" -> "f"
      [] c = "I" -> "i"
      [] c = "M" -> "m"
      [] c = "N" -> "n"
      [] OTHER -> c

WhiteSpace == { " ", "\t" }
NonAlnum == WhiteSpace \cup { ".", ",", "(", ")", "-", "+" }
IsAlnum(c) == c \notin NonAlnum

RECURSIVE LStrip(_)
LStrip(s) == IF s # << >> /\ Head(s) \in WhiteSpace THEN LStrip(Tail(s)) ELSE s
RECURSIVE RStrip(_)
RStrip(s) ==
    IF s # << >> /\ Last(s) \in WhiteSpace THEN RStrip(SubSeq(s, 1, Len(s) - 1)) ELSE s
Strip(s) == RStrip(LStrip(s))

(* The five-character label used when vendor_name is missing or empty;    *)
(* a character outside ASCII is written as its code point.                 *)
UnknownVendorLabel == << "U+672A", "U+77E5", "U+4F9B", "U+5E94", "U+5546" >>
UnknownKey == << "u", "n", "k", "n", "o", "w", "n" >>

_normalize_vendor(value) == SelectSeq(MapChars(value, Lower), IsAlnum)

-----------------------------------------------------------------------------
(* rapidfuzz.fuzz.token_set_ratio on two strings, as the exact fraction    *)
(* num / den.  Tokens are the whitespace-separated words; the strings it   *)
(* is applied to here hold no whitespace (see _normalize_vendor), so each  *)
(* is one token or empty: an empty string scores 0, equal tokens score     *)
(* 100, and different tokens score the normalized Indel similarity         *)
(* 100 * 2 * LCS / (len1 + len2).                                          *)

RECURSIVE LCS(_, _)
LCS(a, b) ==
    IF a = << >> \/ b = << >> THEN 0
    ELSE IF Head(a) = Head(b) THEN 1 + LCS(Tail(a), Tail(b))
         ELSE Max(LCS(Tail(a), b), LCS(a, Tail(b)))

token_set_ratio(s1, s2) ==
    IF s1 = << >> \/ s2 = << >> THEN [num |-> 0, den |-> 1]
    ELSE IF s1 = s2 THEN [num |-> 100, den |-> 1]
         ELSE [num |-> 200 * LCS(s1, s2), den |-> Len(s1) + Len(s2)]

ScoreLess(score, threshold) == score.num < threshold * score.den
(* The comparison of line 48 turned round.                                 *)
ScoreGreater_Reversed(score, threshold) == score.num < threshold * score.den

ScoreGreater(score, threshold) == score.num > threshold * score.den
ScoreLess2(a, b) == a.num * b.den < b.num * a.den

-----------------------------------------------------------------------------
(* Truthiness of an input value (Python `or' / `not').                     *)

Truthy(x) ==
    \/ x.k = "num" /\ x.n # 0
    \/ x.k = "str" /\ (x.s # << >> \/ x.fmt # "")

(* float(str) on the strings the model feeds it: an optional sign, then    *)
(* digits and at most one digit after the point, read in tenths, or one of *)
(* the words for infinity and not-a-number.  Every other string of the     *)
(* input sets below is rejected by float() (ValueError).                   *)

Digits == { "0", "1", "2", "3", "4", "5", "6", "7", "8", "9" }
DigitVal(c) ==
    CASE c = "0" -> 0 [] c = "1" -> 1 [] c = "2" -> 2 [] c = "3" -> 3
      [] c = "4" -> 4 [] c = "5" -> 5 [] c = "6" -> 6 [] c = "7" -> 7
      [] c = "8" -> 8 [] c = "9" -> 9

AllDigits(s) == \A i \in 1..Len(s) : s[i] \in Digits

RECURSIVE IntVal(_)
IntVal(s) == IF s = << >> THEN 0 ELSE IntVal(SubSeq(s, 1, Len(s) - 1)) * 10 + DigitVal(Last(s))

(* A float that is not a finite number: "inf", "-inf" or "nan".            *)
NonFinite(name) == [some |-> TRUE, v |-> 0, nonfinite |-> name]

(* The words float() reads as infinity and as not-a-number, in any case.   *)
InfinityWords == { << "i", "n", "f" >>, << "i", "n", "f", "i", "n", "i", "t", "y" >> }
NanWords == { << "n", "a", "n" >> }

ParseFloat(s) ==
    LET signed == s # << >> /\ Head(s) \in { "-", "+" }
        sign == IF signed /\ Head(s) = "-" THEN -1 ELSE 1
        body == IF signed THEN Tail(s) ELSE s
        word == MapChars(body, Lower)
        dots == { i \in 1..Len(body) : body[i] = "." }
        dot == IF dots = {} THEN Len(body) + 1 ELSE CHOOSE i \in dots : \A j \in dots : i <= j
        int == SubSeq(body, 1, dot - 1)
        frac == SubSeq(body, dot + 1, Len(body))
        ok == /\ AllDigits(int) /\ AllDigits(frac)
              /\ Len(frac) <= 1
              /\ Len(int) + Len(frac) > 0
    IN IF word \in InfinityWords THEN NonFinite(IF sign = -1 THEN "-inf" ELSE "inf")
       ELSE IF word \in NanWords THEN NonFinite("nan")
       ELSE IF ok THEN Some(sign * (IntVal(int) * 10 + IntVal(frac))) ELSE None

(* The characters _to_float deletes: "," and the full-width comma, the     *)
(* full-width yen sign and the yuan character.                             *)
AmountNoise == { ",", "U+FF0C", "U+FFE5", "U+5143" }
ParenToMinus(c) == IF c \in { "(", "U+FF08" } THEN "-" ELSE c
NotAmountNoise(c) == c \notin AmountNoise
NotCloseParen(c) == c \notin { ")", "U+FF09" }

(* _to_float reading a missing value as 0.0.                               *)
_to_float_MissingIsZero(value) ==
    CASE value.k = "absent" -> Some(0)
      [] value.k = "num" -> Some(value.n)
      [] OTHER ->
           LET sanitized == Strip(SelectSeq(value.s, NotAmountNoise))
           IN IF sanitized = << >> THEN None
              ELSE ParseFloat(SelectSeq(MapChars(sanitized, ParenToMinus), NotCloseParen))

_to_float(value) ==
    CASE value.k = "absent" -> None
      [] value.k = "num" -> Some(value.n)
      [] OTHER ->
           LET sanitized == Strip(SelectSeq(value.s, NotAmountNoise))
           IN IF sanitized = << >> THEN None
              ELSE ParseFloat(SelectSeq(MapChars(sanitized, ParenToMinus), NotCloseParen))

(* float(str) read in hundredths: an optional sign, digits, and at most    *)
(* two digits after the point; float() rejects every other string of the   *)
(* input set below (ValueError).                                           *)
ParseHundredths(s) ==
    LET signed == s # << >> /\ Head(s) \in { "-", "+" }
        sign == IF signed /\ Head(s) = "-" THEN -1 ELSE 1
        body == IF signed THEN Tail(s) ELSE s
        dots == { i \in 1..Len(body) : body[i] = "." }
        dot == IF dots = {} THEN Len(body) + 1 ELSE CHOOSE i \in dots : \A j \in dots : i <= j
        int == SubSeq(body, 1, dot - 1)
        frac == SubSeq(body, dot + 1, Len(body))
        ok == /\ AllDigits(int) /\ AllDigits(frac)
              /\ Len(frac) <= 2
              /\ Len(int) + Len(frac) > 0
        cents == IF Len(frac) = 1 THEN IntVal(frac) * 10 ELSE IntVal(frac)
    IN IF ok THEN Some(sign * (IntVal(int) * 100 + cents)) ELSE None

(* startswith(open) and endswith(close)                                    *)
Enclosed(s, open, close) == s # << >> /\ Head(s) = open /\ Last(s) = close

(* s[1:-1]                                                                 *)
Inner(s) == SubSeq(s, 2, Len(s) - 1)

(* NormalizationService._to_float, amounts in hundredths: the four noise   *)
(* characters are deleted, the string is stripped, one pair of enclosing   *)
(* parentheses of either width makes the amount negative, and a string     *)
(* float() rejects gives None.                                             *)
NormalizationService_to_float(value) ==
    CASE value.k = "absent" -> None
      [] value.k = "num" -> Some(value.n)
      [] OTHER ->
           LET sanitized == Strip(SelectSeq(value.s, NotAmountNoise))
               ascii == Enclosed(sanitized, "(", ")")
               inner1 == IF ascii THEN Inner(sanitized) ELSE sanitized
               wide == Enclosed(inner1, "U+FF08", "U+FF09")
               inner2 == IF wide THEN Inner(inner1) ELSE inner1
               amount == ParseHundredths(inner2)
           IN IF ~amount.some THEN None
              ELSE IF ascii \/ wide THEN Some(-amount.v) ELSE amount

(* NormalizationService._normalize_date.  A date is a record of year,     *)
(* month and day; a string no format reads gives NoYmd.                    *)
NoYmd == [some |-> FALSE, y |-> 0, m |-> 0, d |-> 0]
Ymd(y, m, d) == [some |-> TRUE, y |-> y, m |-> m, d |-> d]

IsLeap(y) == (y % 4 = 0 /\ y % 100 # 0) \/ y % 400 = 0
DaysInMonth(y, m) ==
    CASE m = 2 -> IF IsLeap(y) THEN 29 ELSE 28
      [] m \in { 4, 6, 9, 11 } -> 30
      [] OTHER -> 31

(* datetime(y, m, d): ValueError outside the calendar.                     *)
MakeDate(y, m, d) ==
    IF y >= 1 /\ m \in 1..12 /\ d >= 1 /\ d <= DaysInMonth(y, m) THEN Ymd(y, m, d) ELSE NoYmd

(* The first index of character c in s, or Len(s) + 1.                     *)
IndexOf(s, c) ==
    LET at == { i \in 1..Len(s) : s[i] = c }
    IN IF at = {} THEN Len(s) + 1 ELSE CHOOSE i \in at : \A j \in at : i <= j

(* A run of exactly n digits.                                              *)
DigitRun(s, n) == Len(s) = n /\ AllDigits(s)

(* strptime's %m, %d, %H, %M, %S: one or two digits.                       *)
ShortRun(s) == Len(s) \in { 1, 2 } /\ AllDigits(s)

(* "HH:MM:SS" as fromisoformat reads it (two digits each).                 *)
IsoClock(s) ==
    /\ Len(s) = 8 /\ s[3] = ":" /\ s[6] = ":"
    /\ AllDigits(SubSeq(s, 1, 2)) /\ AllDigits(SubSeq(s, 4, 5)) /\ AllDigits(SubSeq(s, 7, 8))
    /\ IntVal(SubSeq(s, 1, 2)) < 24 /\ IntVal(SubSeq(s, 4, 5)) < 60
    /\ IntVal(SubSeq(s, 7, 8)) < 60

(* "%H:%M:%S" as strptime reads it (one or two digits each; 61 seconds     *)
(* are allowed by the pattern).                                            *)
StrpClock(s) ==
    LET c1 == IndexOf(s, ":")
        rest == SubSeq(s, c1 + 1, Len(s))
        c2 == IndexOf(rest, ":")
        hh == SubSeq(s, 1, c1 - 1)
        mm == SubSeq(rest, 1, c2 - 1)
        ss == SubSeq(rest, c2 + 1, Len(rest))
    IN /\ ShortRun(hh) /\ ShortRun(mm) /\ ShortRun(ss)
       /\ IntVal(hh) < 24 /\ IntVal(mm) < 60 /\ IntVal(ss) < 62

(* datetime.fromisoformat (Python 3.11) on the strings of the input set:   *)
(* "YYYY-MM-DD" or "YYYYMMDD", alone or followed by one separator          *)
(* character and "HH:MM:SS".                                               *)
IsoDatePart(s) ==
    IF Len(s) = 10 /\ s[5] = "-" /\ s[8] = "-" /\ DigitRun(SubSeq(s, 1, 4), 4)
       /\ DigitRun(SubSeq(s, 6, 7), 2) /\ DigitRun(SubSeq(s, 9, 10), 2)
    THEN MakeDate(IntVal(SubSeq(s, 1, 4)), IntVal(SubSeq(s, 6, 7)), IntVal(SubSeq(s, 9, 10)))
    ELSE IF DigitRun(s, 8)
    THEN MakeDate(IntVal(SubSeq(s, 1, 4)), IntVal(SubSeq(s, 5, 6)), IntVal(SubSeq(s, 7, 8)))
    ELSE NoYmd

fromisoformat(s) ==
    IF Len(s) = 19 /\ IsoClock(SubSeq(s, 12, 19)) THEN IsoDatePart(SubSeq(s, 1, 10))
    ELSE IsoDatePart(s)

(* strptime(value, "%Y-%m-%d"): four digits, then one or two, then one or  *)
(* two.                                                                    *)
StrpDashed(s) ==
    LET d1 == IndexOf(s, "-")
        rest == SubSeq(s, d1 + 1, Len(s))
        d2 == IndexOf(rest, "-")
        yy == SubSeq(s, 1, d1 - 1)
        mm == SubSeq(rest, 1, d2 - 1)
        dd == SubSeq(rest, d2 + 1, Len(rest))
    IN IF DigitRun(yy, 4) /\ ShortRun(mm) /\ ShortRun(dd)
       THEN MakeDate(IntVal(yy), IntVal(mm), IntVal(dd))
       ELSE NoYmd

(* strptime(value, "%Y-%m-%d %H:%M:%S")                                    *)
StrpDashedClock(s) ==
    LET sp == IndexOf(s, " ")
    IN IF sp <= Len(s) /\ StrpClock(SubSeq(s, sp + 1, Len(s)))
       THEN StrpDashed(SubSeq(s, 1, sp - 1))
       ELSE NoYmd

(* strptime(value, "%Y%m%d"): the pattern tries a two-digit month before   *)
(* a one-digit one.                                                        *)
StrpCompact(s) ==
    LET n == Len(s) - 4
        MonthOk(t) == AllDigits(t) /\ IntVal(t) \in 1..12 /\ (Len(t) = 2 \/ Len(t) = 1)
        DayOk(t) == AllDigits(t) /\ IntVal(t) \in 1..31 /\ (Len(t) = 2 \/ Len(t) = 1)
        Split(k) == MonthOk(SubSeq(s, 5, 4 + k)) /\ DayOk(SubSeq(s, 5 + k, Len(s)))
        Read(k) == MakeDate(IntVal(SubSeq(s, 1, 4)), IntVal(SubSeq(s, 5, 4 + k)),
                            IntVal(SubSeq(s, 5 + k, Len(s))))
    IN IF Len(s) < 6 \/ Len(s) > 8 \/ ~AllDigits(s) THEN NoYmd
       ELSE IF n >= 3 /\ Split(2) THEN Read(2)
       ELSE IF n <= 3 /\ Split(1) THEN Read(1)
       ELSE NoYmd

DigitChar(n) ==
    CASE n = 0 -> "0" [] n = 1 -> "1" [] n = 2 -> "2" [] n = 3 -> "3" [] n = 4 -> "4"
      [] n = 5 -> "5" [] n = 6 -> "6" [] n = 7 -> "7" [] n = 8 -> "8" [] n = 9 -> "9"

(* date.isoformat(): "YYYY-MM-DD", zero padded.                            *)
isoformat(date) ==
    << DigitChar(date.y \div 1000), DigitChar((date.y \div 100) % 10),
       DigitChar((date.y \div 10) % 10), DigitChar(date.y % 10), "-",
       DigitChar(date.m \div 10), DigitChar(date.m % 10), "-",
       DigitChar(date.d \div 10), DigitChar(date.d % 10) >>

(* The replacements of lines 70-71: the year and month characters and "."  *)
(* and "/" become "-", the day character is deleted.                       *)
DateSeparator(c) == IF c \in { "U+5E74", "U+6708", ".", "/" } THEN "-" ELSE c
NotDayChar(c) == c # "U+65E5"

(* _normalize_date: None for a falsy value; a number has no replace()      *)
(* (AttributeError); the separators are rewritten in `value' itself, the   *)
(* result is read by fromisoformat and then by the three strptime formats  *)
(* in order, and when none reads it the rewritten `value' is returned.     *)
_normalize_date(value) ==
    IF ~Truthy(value) THEN [raised |-> FALSE, out |-> NoneStr]
    ELSE IF value.k = "num" THEN [raised |-> TRUE, out |-> NoneStr]
    ELSE LET replaced == MapChars(SelectSeq(value.s, NotDayChar), DateSeparator)
             iso == fromisoformat(replaced)
             dashed == StrpDashed(replaced)
             clock == StrpDashedClock(replaced)
             compact == StrpCompact(replaced)
             dt == IF iso.some THEN iso
                   ELSE IF dashed.some THEN dashed
                   ELSE IF clock.some THEN clock
                   ELSE compact
         IN [raised |-> FALSE,
             out |-> IF dt.some THEN SomeStr(isoformat(dt)) ELSE SomeStr(replaced)]

(* _parse_date: None for a missing or empty value; a number is handed to   *)
(* strptime, which raises TypeError; a string is tried against the four    *)
(* strptime formats and then datetime.fromisoformat.                       *)
StrptimeFormats == { "%Y-%m-%d", "%Y/%m/%d", "%Y-%m-%d %H:%M:%S", "%Y%m%d" }
IsoNaiveFormats == { "%Y-%m-%dT%H:%M:%S" }
IsoAwareFormats == { "%Y-%m-%dT%H:%M:%S%z" }

_parse_date(value) ==
    IF ~Truthy(value) THEN [raised |-> FALSE, date |-> NoDate]
    ELSE IF value.k = "num" THEN [raised |-> TRUE, date |-> NoDate]
    ELSE IF value.fmt \in StrptimeFormats \cup IsoNaiveFormats
         THEN [raised |-> FALSE, date |-> DateTime(value.t, FALSE)]
    ELSE IF value.fmt \in IsoAwareFormats
         THEN [raised |-> FALSE, date |-> DateTime(value.t, TRUE)]
    ELSE [raised |-> FALSE, date |-> NoDate]

NoProfile ==
    [document_id |-> 0, vendor |-> << >>, normalized_vendor |-> << >>,
     issue_date |-> NoDate, amount |-> None, tax_amount |-> None, category |-> Absent]

(* _build_profile.  A numeric vendor_name has no strip() (AttributeError). *)
(* The category is the category key, or the expense_category key when the  *)
(* category key is missing or falsy.                                       *)
_build_profile(document_id, normalized) ==
    LET vname == normalized.vendor_name
        vendor == IF Truthy(vname) THEN Strip(vname.s) ELSE Strip(UnknownVendorLabel)
        date == _parse_date(normalized.issue_date)
    IN IF Truthy(vname) /\ vname.k = "num"
       THEN [raised |-> TRUE, exc |-> "AttributeError", profile |-> NoProfile]
       ELSE IF date.raised
       THEN [raised |-> TRUE, exc |-> "TypeError", profile |-> NoProfile]
       ELSE [raised |-> FALSE, exc |-> "",
             profile |->
               [document_id |-> document_id,
                vendor |-> vendor,
                normalized_vendor |-> _normalize_vendor(vendor),
                issue_date |-> date.date,
                amount |-> _to_float(normalized.total_amount),
                tax_amount |-> _to_float(normalized.tax_amount),
                category |-> IF Truthy(normalized.category) THEN normalized.category
                             ELSE normalized.expense_category]]

-----------------------------------------------------------------------------
(* Duplicate detection.                                                    *)

(* collections.deque(maxlen=n).append                                      *)
DequeAppend(d, x, maxlen) == LastN(Append(d, x), maxlen)

_is_value_close(a, b, tolerance) ==
    IF ~a.some \/ ~b.some THEN FALSE ELSE Abs(a.v - b.v) <= tolerance

(* (a - b).days is the floor of the difference in days; subtracting a      *)
(* datetime with an offset from one without raises TypeError.              *)
_date_within(a, b, days) ==
    IF ~a.some \/ ~b.some THEN [raised |-> FALSE, ok |-> TRUE]
    ELSE IF a.aware # b.aware THEN [raised |-> TRUE, ok |-> FALSE]
    ELSE [raised |-> FALSE, ok |-> Abs((a.t - b.t) \div 2) <= days]

(* _is_duplicate: "no", "match", or "raise" when the date test raises.     *)
_is_duplicate(current, candidate) ==
    LET similarity == token_set_ratio(current.normalized_vendor, candidate.normalized_vendor)
        dates == _date_within(current.issue_date, candidate.issue_date,
                              anomaly_duplicate_date_tolerance_days)
    IN IF ScoreLess(similarity, anomaly_duplicate_vendor_similarity) THEN "no"
       ELSE IF ~_is_value_close(current.amount, candidate.amount,
                                anomaly_duplicate_amount_tolerance) THEN "no"
       ELSE IF dates.raised THEN "raise"
       ELSE IF ~dates.ok THEN "no"
       ELSE IF /\ current.tax_amount.some /\ candidate.tax_amount.some
               /\ ~_is_value_close(current.tax_amount, candidate.tax_amount, TaxTolerance)
            THEN "no"
       ELSE "match"

(* The loop body without the test of lines 73-74.                          *)
CandidateOutcome_NoIdSkip(profile, candidate) == _is_duplicate(profile, candidate)

(* One pass of the loop of _detect_duplicates (lines 73-76) on a candidate.*)
CandidateOutcome(profile, candidate) ==
    IF candidate.document_id = profile.document_id THEN "skip"
    ELSE _is_duplicate(profile, candidate)

(* `not profile.amount': the amount is None or 0.0.                        *)
AmountFalsy(profile) == ~profile.amount.some \/ profile.amount.v = 0

RECURSIVE ScanCandidates(_, _, _, _)
ScanCandidates(buffer, i, profile, matches) ==
    IF i > Len(buffer) THEN [raised |-> FALSE, matches |-> matches]
    ELSE LET outcome == CandidateOutcome(profile, buffer[i])
         IN IF outcome = "raise" THEN [raised |-> TRUE, matches |-> matches]
            ELSE ScanCandidates(buffer, i + 1, profile,
                                IF outcome = "match"
                                THEN Append(matches, buffer[i].document_id)
                                ELSE matches)

_remember_profile(buffer, profile) == DequeAppend(buffer, profile, DUPLICATE_BUFFER_LIMIT)

(* _detect_duplicates on the buffer: the matches and the buffer afterwards;*)
(* when the scan raises the profile is not remembered.                     *)
_detect_duplicates(buffer, profile) ==
    IF AmountFalsy(profile)
    THEN [raised |-> FALSE, matches |-> << >>, buffer |-> _remember_profile(buffer, profile)]
    ELSE LET scan == ScanCandidates(buffer, 1, profile, << >>)
         IN IF scan.raised
            THEN [raised |-> TRUE, matches |-> << >>, buffer |-> buffer]
            ELSE [raised |-> FALSE, matches |-> scan.matches,
                  buffer |-> _remember_profile(buffer, profile)]

-----------------------------------------------------------------------------
(* Amount outlier detectors.  Each returns whether its finding is made.    *)

RECURSIVE Sum(_)
Sum(h) == IF h = << >> THEN 0 ELSE Head(h) + Sum(Tail(h))

RECURSIVE SumSq(_)
SumSq(h) == IF h = << >> THEN 0 ELSE Head(h) * Head(h) + SumSq(Tail(h))

RECURSIVE Insert(_, _)
Insert(x, sorted) ==
    IF sorted = << >> THEN << x >>
    ELSE IF x <= Head(sorted) THEN << x >> \o sorted
         ELSE << Head(sorted) >> \o Insert(x, Tail(sorted))

RECURSIVE Sorted(_)
Sorted(h) == IF h = << >> THEN << >> ELSE Insert(Head(h), Sorted(Tail(h)))

(* Twice statistics.median(h), for a non-empty h.                          *)
Median2(h) ==
    LET srt == Sorted(h)
        n == Len(h)
    IN IF n % 2 = 1 THEN 2 * srt[(n + 1) \div 2] ELSE srt[n \div 2] + srt[n \div 2 + 1]

(* _z_score_alert without the minimum number of samples of line 142.      *)
_z_score_alert_NoMinimum(history, value) ==
    LET n == Len(history)
        S == Sum(history)
        varnum == n * SumSq(history) - S * S
        dev == Abs(n * value - S)
    IN IF varnum = 0 THEN SigmaDen * dev > SigmaNum * 10 * n
       ELSE SigmaDen * SigmaDen * dev * dev > SigmaNum * SigmaNum * varnum

(* z = |value - mean| / sigma > 2.5 with sigma = pstdev(history) or 1.0.   *)
(* With n = len, S = sum, Q = sum of squares: mean = S / n and             *)
(* pstdev = sqrt(n * Q - S * S) / n; 1.0 is 10 tenths.                     *)
_z_score_alert(history, value) ==
    LET n == Len(history)
        S == Sum(history)
        varnum == n * SumSq(history) - S * S
        dev == Abs(n * value - S)
    IN IF n < ZScoreMinSamples THEN FALSE
       ELSE IF varnum = 0 THEN SigmaDen * dev > SigmaNum * 10 * n
       ELSE SigmaDen * SigmaDen * dev * dev > SigmaNum * SigmaNum * varnum

(* _mad_alert asking for 5 samples, as the z-score does, instead of 8.     *)
_mad_alert_FiveSamples(history, value) ==
    IF Len(history) < ZScoreMinSamples THEN FALSE
    ELSE LET med2 == Median2(history)
             deviations2 == [i \in 1..Len(history) |-> Abs(2 * history[i] - med2)]
             m4 == Median2(deviations2)
             mad4 == IF m4 = 0 THEN 40 ELSE m4
         IN Abs(2 * value - med2) * 20000 > MadCutoff * mad4

(* score = |value - med| / (1.4826 * mad) > 3.5 with mad = median of the   *)
(* absolute deviations, or 1.0 when that is 0.  med2 is twice the median   *)
(* and mad4 four times the mad; MadCutoff is 3.5 * 1.4826 * 10000.         *)
_mad_alert(history, value) ==
    IF Len(history) < MadMinSamples THEN FALSE
    ELSE LET med2 == Median2(history)
             deviations2 == [i \in 1..Len(history) |-> Abs(2 * history[i] - med2)]
             m4 == Median2(deviations2)
             mad4 == IF m4 = 0 THEN 40 ELSE m4
         IN Abs(2 * value - med2) * 20000 > MadCutoff * mad4

(* What _isolation_forest_alert reads besides its arguments: the ML flag   *)
(* of the settings and whether the import of line 16 gave a class.         *)
MlConfig(enabled, available) == [enable_anomaly_ml |-> enabled, IsolationForest |-> available]
DefaultMl == MlConfig(enable_anomaly_ml, IsolationForestAvailable)

(* Whether _isolation_forest_alert fits a model (lines 164-169).           *)
ForestFittedWith(ml, history) ==
    /\ ml.enable_anomaly_ml /\ ml.IsolationForest
    /\ Len(history) >= anomaly_ml_min_samples

ForestFitted(history) == ForestFittedWith(DefaultMl, history)

(* The verdicts (score < -0.1) the fitted forest can give; no verdict is   *)
(* given unless a model is fitted.                                         *)
ForestVerdicts(history) == IF ForestFitted(history) THEN BOOLEAN ELSE { FALSE }

(* _isolation_forest_alert fitting a model whatever the flag and the       *)
(* capability are.                                                         *)
IsolationForestAlert_IgnoreFlag(ml, history, value, verdict) ==
    LET fitted == Len(history) >= anomaly_ml_min_samples
    IN [raised |-> FALSE, fitted |-> fitted, finding |-> fitted /\ verdict]

(* _isolation_forest_alert under the given flag and capability: whether a  *)
(* model was fitted and whether the finding is returned; verdict is what   *)
(* the fitted model says of the value.  Neither early return raises.       *)
IsolationForestAlert(ml, history, value, verdict) ==
    LET fitted == ForestFittedWith(ml, history)
    IN [raised |-> FALSE, fitted |-> fitted, finding |-> fitted /\ verdict]

_isolation_forest_alert(history, value, verdict) ==
    IsolationForestAlert(DefaultMl, history, value, verdict).finding

VendorKey(profile) ==
    IF profile.normalized_vendor # << >> THEN profile.normalized_vendor ELSE UnknownKey

(* dict.setdefault(vendor_key, deque(maxlen=...))                          *)
SetDefault(f, key) ==
    IF key \in DOMAIN f THEN f ELSE [k \in DOMAIN f \cup { key } |-> IF k = key THEN << >> ELSE f[k]]

(* The findings of _run_amount_analyzers computed from the copies.         *)
DetectorFindings(previous_vendor_values, previous_global_values, amount, verdict) ==
    (IF _z_score_alert(previous_vendor_values, amount) THEN << "z_vendor" >> ELSE << >>)
    \o (IF _z_score_alert(previous_global_values, amount) THEN << "z_global" >> ELSE << >>)
    \o (IF _mad_alert(previous_vendor_values, amount) THEN << "mad" >> ELSE << >>)
    \o (IF _isolation_forest_alert(previous_vendor_values, amount, verdict)
        THEN << "iforest" >> ELSE << >>)

(* _run_amount_analyzers reading the histories after the appends instead   *)
(* of the copies taken before them.                                        *)
_run_amount_analyzers_ReadAfterAppend(profile, vhist, ghist, verdict) ==
    IF ~profile.amount.some
    THEN [findings |-> << >>, vendor |-> vhist, global |-> ghist,
          previous_vendor_values |-> << >>, previous_global_values |-> << >>]
    ELSE LET amount == profile.amount.v
             vendor_key == VendorKey(profile)
             vendor == [SetDefault(vhist, vendor_key) EXCEPT ![vendor_key] =
                           DequeAppend(@, amount, anomaly_vendor_history_limit)]
             global == DequeAppend(ghist, amount, anomaly_global_history_limit)
         IN [findings |-> DetectorFindings(vendor[vendor_key], global, amount, verdict),
             vendor |-> vendor,
             global |-> global,
             previous_vendor_values |-> vendor[vendor_key],
             previous_global_values |-> global]

(* _run_amount_analyzers: the findings, the two histories afterwards and   *)
(* the copies the detectors read.  The histories are copied (lines         *)
(* 124-125) before the amount is appended (lines 127-128).                 *)
_run_amount_analyzers(profile, vhist, ghist, verdict) ==
    IF ~profile.amount.some
    THEN [findings |-> << >>, vendor |-> vhist, global |-> ghist,
          previous_vendor_values |-> << >>, previous_global_values |-> << >>]
    ELSE LET amount == profile.amount.v
             vendor_key == VendorKey(profile)
             withKey == SetDefault(vhist, vendor_key)
             previous_vendor_values == withKey[vendor_key]
             previous_global_values == ghist
         IN [findings |-> DetectorFindings(previous_vendor_values, previous_global_values,
                                           amount, verdict),
             vendor |-> [withKey EXCEPT ![vendor_key] =
                            DequeAppend(@, amount, anomaly_vendor_history_limit)],
             global |-> DequeAppend(ghist, amount, anomaly_global_history_limit),
             previous_vendor_values |-> previous_vendor_values,
             previous_global_values |-> previous_global_values]

-----------------------------------------------------------------------------
(* Rule engine.  A predicate yields "true", "false" or "raise".            *)

(* tax / amount > pct / 100 and tax / amount < pct / 100, amount # 0.      *)
RatioGreater(tax, amount, pct) ==
    IF amount > 0 THEN 100 * tax > pct * amount ELSE 100 * tax < pct * amount
RatioLess(tax, amount, pct) ==
    IF amount > 0 THEN 100 * tax < pct * amount ELSE 100 * tax > pct * amount

(* _tax_ratio is not None                                                  *)
HasTaxRatio(profile) ==
    profile.amount.some /\ profile.amount.v # 0 /\ profile.tax_amount.some

Contains(text, word) ==
    \E i \in 1..(Len(text) - Len(word) + 1) : SubSeq(text, i, i + Len(word) - 1) = word

MealKeywords == { << "U+9910" >>, << "m", "e", "a", "l" >> }

(* _category_contains: profile.category, or the category key, or "".  A    *)
(* falsy profile.category means a falsy category key as well.              *)
(* A non-zero numeric category is truthy, has no                           *)
(* lower() and raises; 0 falls through `or' to the empty string.           *)
_category_contains(profile) ==
    IF profile.category.k = "num" /\ profile.category.n # 0 THEN "raise"
    ELSE IF \E w \in MealKeywords : Contains(MapChars(profile.category.s, Lower), w)
         THEN "true" ELSE "false"

Bool(b) == IF b THEN "true" ELSE "false"

RuleNames == << "tax_gt_total", "tax_ratio_high", "tax_ratio_low", "high_meal_expense" >>

(* The rules with the lower tax-ratio bound checked for every amount, not  *)
(* only above 200.                                                         *)
Predicate_NoLowFloor(rule, profile) ==
    CASE rule = "tax_gt_total" ->
           Bool(/\ profile.tax_amount.some /\ profile.amount.some
                /\ profile.tax_amount.v > profile.amount.v)
      [] rule = "tax_ratio_high" ->
           Bool(/\ HasTaxRatio(profile)
                /\ RatioGreater(profile.tax_amount.v, profile.amount.v, TaxRatioUpperPct))
      [] rule = "tax_ratio_low" ->
           Bool(/\ HasTaxRatio(profile)
                /\ RatioLess(profile.tax_amount.v, profile.amount.v, TaxRatioLowerPct))
      [] rule = "high_meal_expense" ->
           LET c == _category_contains(profile)
           IN IF c = "raise" THEN "raise"
              ELSE Bool(c = "true" /\ profile.amount.some /\ profile.amount.v > MealCeiling)

Predicate(rule, profile) ==
    CASE rule = "tax_gt_total" ->
           Bool(/\ profile.tax_amount.some /\ profile.amount.some
                /\ profile.tax_amount.v > profile.amount.v)
      [] rule = "tax_ratio_high" ->
           Bool(/\ HasTaxRatio(profile)
                /\ RatioGreater(profile.tax_amount.v, profile.amount.v, TaxRatioUpperPct))
      [] rule = "tax_ratio_low" ->
           Bool(/\ ~AmountFalsy(profile)
                /\ profile.amount.v > LowRatioFloor
                /\ HasTaxRatio(profile)
                /\ RatioLess(profile.tax_amount.v, profile.amount.v, TaxRatioLowerPct))
      [] rule = "high_meal_expense" ->
           LET c == _category_contains(profile)
           IN IF c = "raise" THEN "raise"
              ELSE Bool(c = "true" /\ profile.amount.some /\ profile.amount.v > MealCeiling)

(* _evaluate_rules giving up all findings when a predicate raises.         *)
_evaluate_rules_RaiseDropsFindings(profile) ==
    LET Holds(rule) == Predicate(rule, profile) = "true"
    IN IF \E k \in 1..Len(RuleNames) : Predicate(RuleNames[k], profile) = "raise"
       THEN << >> ELSE SelectSeq(RuleNames, Holds)

(* _evaluate_rules: the names of the rules whose predicate is true, in     *)
(* rule order; a predicate that raises is skipped.                         *)
_evaluate_rules(profile) ==
    LET Holds(rule) == Predicate(rule, profile) = "true"
    IN SelectSeq(RuleNames, Holds)

-----------------------------------------------------------------------------
(* The engine after construction (__init__).                               *)

(* The input mapping of analyze.                                           *)
Fields(vendor_name, total_amount, tax_amount, issue_date, category) ==
    [vendor_name |-> vendor_name, total_amount |-> total_amount, tax_amount |-> tax_amount,
     issue_date |-> issue_date, currency |-> Absent, category |-> category,
     expense_category |-> Absent]

NoResult ==
    [called |-> FALSE, raised |-> FALSE, exc |-> "", document_id |-> 0,
     built |-> FALSE, profile |-> NoProfile, anomalies |-> << >>, duplicates |-> << >>,
     previous_vendor_values |-> << >>, previous_global_values |-> << >>]

Raised(document_id, exc, built, profile) ==
    [called |-> TRUE, raised |-> TRUE, exc |-> exc, document_id |-> document_id,
     built |-> built, profile |-> profile, anomalies |-> << >>, duplicates |-> << >>,
     previous_vendor_values |-> << >>, previous_global_values |-> << >>]

Returned(document_id, profile, anomalies, duplicates, previous_vendor, previous_global) ==
    [called |-> TRUE, raised |-> FALSE, exc |-> "", document_id |-> document_id,
     built |-> TRUE, profile |-> profile, anomalies |-> anomalies, duplicates |-> duplicates,
     previous_vendor_values |-> previous_vendor, previous_global_values |-> previous_global]

Threads == 1..MaxThreads

IdleThread ==
    [pc |-> "idle", document_id |-> 0, normalized |-> Fields(Absent, Absent, Absent, Absent, Absent),
     profile |-> NoProfile, verdict |-> FALSE,
     it_state |-> 0, i |-> 0, matches |-> << >>,
     previous_vendor_values |-> << >>, previous_global_values |-> << >>,
     raised |-> FALSE, exc |-> "", anomalies |-> << >>, duplicates |-> << >>]

(* No NormalizationService call and no probe made yet.  log is the list of *)
(* the vendor strings handed to the lexicon lookup so far.                 *)
NoNormResult ==
    [n |-> 0, op |-> "", input |-> Absent, raised |-> FALSE,
     output |-> [some |-> FALSE, s |-> << >>], hit |-> FALSE, log |-> << >>]
NoProbe == [fn |-> ""]

(* The two capacities of Settings the engine reads, and whether __init__   *)
(* has run and returned ("ready") or raised ("rejected").                  *)
Settings(status, vendor_limit, global_limit) ==
    [status |-> status, anomaly_vendor_history_limit |-> vendor_limit,
     anomaly_global_history_limit |-> global_limit]
DefaultSettings == Settings("ready", anomaly_vendor_history_limit, anomaly_global_history_limit)
NoSettings == Settings("unbuilt", 0, 0)

(* The threads that call _canonicalize_vendor on the one service, and a    *)
(* thread with no call in flight.                                          *)
LookupThreads == 1..MaxLookupThreads
IdleLookup == [pc |-> "idle", vendor |-> Absent, popped |-> FALSE]

Init ==
    /\ duplicate_profiles = << >>
    /\ deque_state = 0
    /\ global_amount_history = << >>
    /\ vendor_amount_history = << >>
    /\ result = NoResult
    /\ ncalls = 0
    /\ threads = [t \in Threads |-> IdleThread]
    /\ vendor_lexicon = << >>
    /\ norm_result = NoNormResult
    /\ probe = NoProbe
    /\ settings = DefaultSettings
    /\ lookups = [t \in LookupThreads |-> IdleLookup]

PriorVendorValues(vhist, profile) ==
    IF VendorKey(profile) \in DOMAIN vhist THEN vhist[VendorKey(profile)] ELSE << >>

Engine(dp, ds, vh, gh) ==
    [duplicate_profiles |-> dp, deque_state |-> ds,
     vendor_amount_history |-> vh, global_amount_history |-> gh]

(* analyze(document_id, normalized) run to completion on engine state eng: *)
(* what the call returns or raises, and the engine afterwards.  An         *)
(* exception leaves the engine as it was when it was raised.               *)
analyze(eng, document_id, normalized, verdict) ==
    LET bp == _build_profile(document_id, normalized)
        profile == bp.profile
        dd == _detect_duplicates(eng.duplicate_profiles, profile)
        ra == _run_amount_analyzers(profile, eng.vendor_amount_history,
                                    eng.global_amount_history, verdict)
    IN IF bp.raised
       THEN [result |-> Raised(document_id, bp.exc, FALSE, NoProfile), engine |-> eng]
       ELSE IF dd.raised
       THEN [result |-> Raised(document_id, "TypeError", TRUE, profile), engine |-> eng]
       ELSE [result |-> Returned(document_id, profile,
                                 ra.findings \o _evaluate_rules(profile), dd.matches,
                                 ra.previous_vendor_values, ra.previous_global_values),
             engine |-> Engine(dd.buffer, eng.deque_state + 1, ra.vendor, ra.global)]

CurrentEngine ==
    Engine(duplicate_profiles, deque_state, vendor_amount_history, global_amount_history)

(* The verdicts the forest may give for this call (none unless fitted).    *)
Verdicts(eng, document_id, normalized) ==
    LET bp == _build_profile(document_id, normalized)
    IN IF bp.raised THEN { FALSE }
       ELSE ForestVerdicts(PriorVendorValues(eng.vendor_amount_history, bp.profile))

(* One analyze call with no other call in flight.                          *)
Analyze(document_id, normalized) ==
    /\ \A t \in Threads : threads[t].pc = "idle"
    /\ \E verdict \in Verdicts(CurrentEngine, document_id, normalized) :
         \E out \in { analyze(CurrentEngine, document_id, normalized, verdict) } :
            /\ result' = out.result
            /\ duplicate_profiles' = out.engine.duplicate_profiles
            /\ deque_state' = out.engine.deque_state
            /\ vendor_amount_history' = out.engine.vendor_amount_history
            /\ global_amount_history' = out.engine.global_amount_history
    /\ ncalls' = ncalls + 1
    /\ UNCHANGED << threads, normalizer >>

-----------------------------------------------------------------------------
(* Inputs.                                                                 *)

VendorA == << "A", "b", " ", "c", "d", " " >>
VendorB == << "a", "b", "c", "d", "e", "." >>
VendorC == << "m", "m" >>
Amount1004 == << "U+FFE5", "1", "0", "0", ".", "4" >>
Meal == << "M", "e", "a", "l", "s" >>
Travel == << "a", "b" >>

Day1 == DateStr("%Y-%m-%d", 2)
Day4Noon == DateStr("%Y-%m-%d %H:%M:%S", 9)
Day1Offset == DateStr("%Y-%m-%dT%H:%M:%S%z", 2)

DocIds == 1..MaxDocs

DupFields ==
    { Fields(Str(VendorA), a, Absent, Absent, Absent) :
        a \in { Num(0), Num(1000), Str(Amount1004) } }
    \cup { Fields(Str(VendorB), Num(3), Absent, Absent, Absent) }
    \cup { Fields(Str(VendorA), Num(1000), Absent, d, Absent) :
             d \in { Day1, Day4Noon, Day1Offset, Num(20240101) } }
    \cup { Fields(Str(VendorA), Num(1000), x, Absent, Absent) : x \in { Num(60), Num(70) } }
    \cup { Fields(Str(VendorC), Num(1000), Absent, Day1, Absent),
           Fields(Absent, Absent, Num(60), Absent, Str(Meal)),
           Fields(Num(7), Num(1000), Absent, Absent, Absent),
           Fields(Str(VendorB), Num(50), Num(60), Absent, Num(7)) }

HistFields ==
    { Fields(Str(v), Num(a), Absent, Absent, Absent) : v \in { << "a" >>, << "b" >> }, a \in { 10, 1010 } }
    \cup { Fields(Str(<< "a" >>), Absent, Absent, Absent, Absent) }

(* Sequential runs over the duplicate-detection inputs.  The code only     *)
(* compares document ids for equality (line 73), so a call carries an id   *)
(* used before or the next unused one.                                     *)
Next ==
    \E document_id \in DocIds, normalized \in DupFields :
        /\ ncalls < MaxCalls
        /\ document_id <= ncalls + 1
        /\ Analyze(document_id, normalized)

Spec == Init /\ [][Next]_vars

(* Sequential runs over inputs that exercise the rules.                    *)
RuleFields ==
    { Fields(Str(VendorA), Num(1000), Absent, Day1, Absent),
      Fields(Str(VendorA), Num(1000), Num(1100), Day1Offset, Absent),
      Fields(Str(VendorC), Num(50), Num(60), Absent, Num(7)),
      Fields(Str(VendorC), Absent, Num(100), Absent, Absent),
      Fields(Str(VendorC), Num(0), Num(10), Absent, Absent),
      Fields(Str(VendorC), Num(3000), Num(-10), Absent, Absent),
      Fields(Str(VendorC), Num(1000), Num(-10), Absent, Absent),
      Fields(Str(VendorC), Num(1000), Num(170), Absent, Absent),
      Fields(Str(VendorC), Num(1000), Num(180), Absent, Absent),
      Fields(Str(VendorC), Num(30000), Num(0), Absent, Str(Meal)),
      Fields(Str(VendorC), Num(-1000), Num(-200), Absent, Absent),
      Fields(Str(VendorC), Num(3000), Num(0), Absent, Num(0)),
      [Fields(Str(VendorC), Num(30000), Absent, Absent, Str(Travel))
         EXCEPT !.expense_category = Str(Meal)] }

NextRules ==
    \E normalized \in RuleFields :
        ncalls < MaxCalls /\ Analyze(ncalls + 1, normalized)

SpecRules == Init /\ [][NextRules]_vars

(* Sequential runs over inputs with and without an amount that parses.     *)
NotANumber == << "a", "b" >>

MissingFields ==
    { Fields(Str(VendorA), Num(1000), Absent, Day1, Absent),
      Fields(Str(VendorA), Absent, Absent, Day1, Absent),
      Fields(Str(VendorB), Str(NotANumber), Num(60), Absent, Str(Meal)),
      Fields(Str(VendorB), Str(<< >>), Absent, Absent, Absent),
      Fields(Num(7), Absent, Absent, Absent, Absent),
      Fields(Str(VendorA), Str(NotANumber), Absent, Num(20240101), Absent) }

NextMissing ==
    \E normalized \in MissingFields :
        ncalls < MaxCalls /\ Analyze(ncalls + 1, normalized)

SpecMissing == Init /\ [][NextMissing]_vars

(* Sequential runs long enough to fill the history windows.                *)
NextHist ==
    \E normalized \in HistFields :
        ncalls < MaxHistCalls /\ Analyze(ncalls + 1, normalized)

SpecHist == Init /\ [][NextHist]_vars

-----------------------------------------------------------------------------
(* Concurrent analyze calls on one engine (the service is a process-wide   *)
(* singleton, app.py line 94, and takes no lock).  Each thread makes one   *)
(* call; a step is one access to the shared collections together with the  *)
(* thread-local computation that precedes it.                              *)

ConcFields ==
    { Fields(Str(VendorA), Num(1000), Absent, Absent, Absent),
      Fields(Str(VendorB), Num(1003), Absent, Absent, Absent),
      Fields(Str(VendorA), Absent, Absent, Absent, Absent) }

Finish(th, exc) == [th EXCEPT !.pc = "done", !.raised = TRUE, !.exc = exc]

(* analyze is entered and the profile built (line 56), up to the test of   *)
(* line 67.                                                                *)
Call(t, normalized) ==
    LET bp == _build_profile(t, normalized)
        th == [threads[t] EXCEPT !.document_id = t, !.normalized = normalized,
                                 !.profile = bp.profile]
    IN /\ threads[t].pc = "idle"
       /\ threads' = [threads EXCEPT ![t] =
            IF bp.raised THEN Finish(th, bp.exc)
            ELSE IF AmountFalsy(bp.profile) THEN [th EXCEPT !.pc = "remember"]
            ELSE [th EXCEPT !.pc = "loop"]]
       /\ UNCHANGED << engine, result, ncalls, normalizer >>

(* The loop body (lines 73-76) on the candidate the iterator yields.       *)
LoopBody(th, candidate) ==
    LET outcome == CandidateOutcome(th.profile, candidate)
    IN IF outcome = "raise" THEN Finish(th, "TypeError")
       ELSE [th EXCEPT !.pc = "iter",
                       !.i = @ + 1,
                       !.matches = IF outcome = "match"
                                   THEN Append(@, candidate.document_id) ELSE @]

(* The loop of line 72 is entered: the iterator over the deque is made and *)
(* asked for its first candidate, with no thread switch in between.        *)
LoopStart(t) ==
    LET th == [threads[t] EXCEPT !.it_state = deque_state, !.i = 0]
    IN /\ threads[t].pc = "loop"
       /\ threads' = [threads EXCEPT ![t] =
            IF duplicate_profiles = << >> THEN [th EXCEPT !.pc = "remember"]
            ELSE LoopBody(th, duplicate_profiles[1])]
       /\ UNCHANGED << engine, result, ncalls, normalizer >>

(* A later turn of the loop: the deque iterator raises RuntimeError when   *)
(* the deque was mutated since the iterator was made, stops at the end,    *)
(* and otherwise yields the next candidate.                                *)
IterNext(t) ==
    LET th == threads[t]
    IN /\ th.pc = "iter"
       /\ threads' = [threads EXCEPT ![t] =
            IF deque_state # th.it_state THEN Finish(th, "RuntimeError")
            ELSE IF th.i >= Len(duplicate_profiles) THEN [th EXCEPT !.pc = "remember"]
            ELSE LoopBody(th, duplicate_profiles[th.i + 1])]
       /\ UNCHANGED << engine, result, ncalls, normalizer >>

(* _remember_profile (line 81), then the return of _detect_duplicates and  *)
(* the test of line 117.                                                   *)
Remember(t) ==
    LET th == threads[t]
    IN /\ th.pc = "remember"
       /\ duplicate_profiles' = _remember_profile(duplicate_profiles, th.profile)
       /\ deque_state' = deque_state + 1
       /\ threads' = [threads EXCEPT ![t] =
            [th EXCEPT !.duplicates = th.matches,
                       !.pc = IF th.profile.amount.some THEN "setdefault" ELSE "detect"]]
       /\ UNCHANGED << global_amount_history, vendor_amount_history, result, ncalls, normalizer >>

(* vendor_amount_history.setdefault (lines 121-123)                        *)
SetDefaultStep(t) ==
    LET th == threads[t]
    IN /\ th.pc = "setdefault"
       /\ vendor_amount_history' = SetDefault(vendor_amount_history, VendorKey(th.profile))
       /\ threads' = [threads EXCEPT ![t].pc = "copy_vendor"]
       /\ UNCHANGED << duplicate_profiles, deque_state, global_amount_history, result, ncalls, normalizer >>

(* previous_vendor_values = list(vendor_history) (line 124)                *)
CopyVendor(t) ==
    LET th == threads[t]
    IN /\ th.pc = "copy_vendor"
       /\ threads' = [threads EXCEPT ![t] =
            [th EXCEPT !.pc = "copy_global",
                       !.previous_vendor_values = vendor_amount_history[VendorKey(th.profile)]]]
       /\ UNCHANGED << engine, result, ncalls, normalizer >>

(* previous_global_values = list(self.global_amount_history) (line 125)    *)
CopyGlobal(t) ==
    LET th == threads[t]
    IN /\ th.pc = "copy_global"
       /\ threads' = [threads EXCEPT ![t] =
            [th EXCEPT !.pc = "append_vendor",
                       !.previous_global_values = global_amount_history]]
       /\ UNCHANGED << engine, result, ncalls, normalizer >>

(* vendor_history.append(amount) (line 127)                                *)
AppendVendor(t) ==
    LET th == threads[t]
    IN /\ th.pc = "append_vendor"
       /\ vendor_amount_history' =
            [vendor_amount_history EXCEPT ![VendorKey(th.profile)] =
                DequeAppend(@, th.profile.amount.v, anomaly_vendor_history_limit)]
       /\ threads' = [threads EXCEPT ![t].pc = "append_global"]
       /\ UNCHANGED << duplicate_profiles, deque_state, global_amount_history, result, ncalls, normalizer >>

(* self.global_amount_history.append(amount) (line 128)                    *)
AppendGlobal(t) ==
    LET th == threads[t]
    IN /\ th.pc = "append_global"
       /\ global_amount_history' =
            DequeAppend(global_amount_history, th.profile.amount.v, anomaly_global_history_limit)
       /\ threads' = [threads EXCEPT ![t].pc = "detect"]
       /\ UNCHANGED << duplicate_profiles, deque_state, vendor_amount_history, result, ncalls, normalizer >>

(* The rest of the call, which touches no shared collection: the          *)
(* detectors on the copies taken earlier (lines 130-139; none when the     *)
(* amount is None, line 117), _evaluate_rules and the return of analyze.   *)
Detect(t) ==
    LET th == threads[t]
    IN /\ th.pc = "detect"
       /\ \E verdict \in ForestVerdicts(th.previous_vendor_values) :
            threads' = [threads EXCEPT ![t] =
              [th EXCEPT !.pc = "done",
                         !.verdict = verdict,
                         !.anomalies =
                            (IF th.profile.amount.some
                             THEN DetectorFindings(th.previous_vendor_values,
                                                   th.previous_global_values,
                                                   th.profile.amount.v, verdict)
                             ELSE << >>)
                            \o _evaluate_rules(th.profile)]]
       /\ UNCHANGED << engine, result, ncalls, normalizer >>

NextConc ==
    \E t \in Threads :
        \/ \E normalized \in ConcFields : Call(t, normalized)
        \/ LoopStart(t)
        \/ IterNext(t)
        \/ Remember(t)
        \/ SetDefaultStep(t)
        \/ CopyVendor(t)
        \/ CopyGlobal(t)
        \/ AppendVendor(t)
        \/ AppendGlobal(t)
        \/ Detect(t)

SpecConc == Init /\ [][NextConc]_vars

-----------------------------------------------------------------------------
(* The detectors applied to histories longer than the scaled-down windows  *)
(* hold: one application per run, on inputs drawn from bounded sets.       *)

RECURSIVE SeqsUpTo(_, _)
SeqsUpTo(S, n) ==
    IF n = 0 THEN { << >> }
    ELSE LET shorter == SeqsUpTo(S, n - 1)
         IN shorter \cup { Append(h, x) : h \in { g \in shorter : Len(g) = n - 1 }, x \in S }

MadSamples == { 10, 20, 1010 }
MadValues == { 10, 61, 62, 1010 }
MadHistories == SeqsUpTo(MadSamples, MaxMadLen)

MlHistories == { [i \in 1..n |-> 10] : n \in 0..MaxMlLen }

ApplyMad(history, value) ==
    /\ probe' = [fn |-> "_mad_alert", history |-> history, value |-> value,
                 fired |-> _mad_alert(history, value)]
    /\ UNCHANGED << engine, result, ncalls, threads, vendor_lexicon, norm_result, settings, lookups >>

ApplyForest(ml, history, value, verdict) ==
    /\ probe' = [fn |-> "_isolation_forest_alert", ml |-> ml, history |-> history,
                 value |-> value, verdict |-> verdict,
                 out |-> IsolationForestAlert(ml, history, value, verdict)]
    /\ UNCHANGED << engine, result, ncalls, threads, vendor_lexicon, norm_result, settings, lookups >>

Amount123456 == << "1", "2", "3", "4", ".", "5", "6" >>

ToFloatValues ==
    { Str(<< "1", "," >> \o Tail(Amount123456)),
      Str(<< "U+00A5" >> \o Amount123456),
      Str(<< "U+FFE5" >> \o Amount123456),
      Str(<< "(" >> \o Amount123456 \o << ")" >>),
      Str(<< "U+FF08", "1", "2", ".", "5", "U+FF09" >>),
      Str(<< "(", "-", "5", ")" >>),
      Str(<< "(", "(", "5", ")", ")" >>),
      Str(<< " ", "1", "2", "U+5143" >>),
      Str(<< "a", "b", "c" >>),
      Str(<< >>),
      Absent,
      Num(123456) }

ApplyToFloat(value) ==
    /\ probe' = [fn |-> "NormalizationService._to_float", value |-> value,
                 raised |-> FALSE, out |-> NormalizationService_to_float(value)]
    /\ UNCHANGED << engine, result, ncalls, threads, vendor_lexicon, norm_result, settings, lookups >>

(* Amounts handed to _build_profile as total_amount and tax_amount.        *)
AmountInf == << "i", "n", "f" >>
AmountValues ==
    { Num(1000), Str(Amount1004), Str(AmountInf), Str(<< "-" >> \o AmountInf),
      Str(<< "(" >> \o AmountInf \o << ")" >>), Str(<< " ", "I", "n", "f" >>),
      Str(<< "U+FFE5", "n", "a", "n" >>), Str(<< "N", "a", "N" >>),
      Str(<< "a", "b", "c" >>), Str(<< >>), Absent }

ProfileFields ==
    { Fields(v, a, t, Absent, Absent) :
        v \in { Str(VendorA), Num(7) }, a \in AmountValues, t \in AmountValues }

ApplyBuildProfile(normalized) ==
    /\ probe' = [fn |-> "_build_profile", normalized |-> normalized,
                 raised |-> _build_profile(1, normalized).raised,
                 profile |-> _build_profile(1, normalized).profile]
    /\ UNCHANGED << engine, result, ncalls, threads, vendor_lexicon, norm_result, settings, lookups >>

(* Date strings handed to _normalize_date.                                 *)
Date20240105 == << "2", "0", "2", "4", "-", "0", "1", "-", "0", "5" >>
Clock102030 == << "1", "0", ":", "2", "0", ":", "3", "0" >>
Digits2024 == << "2", "0", "2", "4" >>

DateValues ==
    { Str(Date20240105),
      Str(Digits2024 \o << "/", "0", "1", "/", "0", "5" >>),
      Str(Digits2024 \o << "0", "1", "0", "5" >>),
      Str(Digits2024 \o << "1", "5" >>),
      Str(Date20240105 \o << " " >> \o Clock102030),
      Str(Date20240105 \o << "T" >> \o Clock102030),
      Str(Digits2024 \o << "-", "1", "-", "5", " ", "1", ":", "2", ":", "3" >>),
      Str(Digits2024 \o << "U+5E74", "1", "U+6708", "5", "U+65E5" >>),
      Str(Digits2024 \o << ".", "1", ".", "5" >>),
      Str(Digits2024 \o << "-", "0", "2", "-", "2", "9" >>),
      Str(Digits2024 \o << "-", "0", "2", "-", "3", "0" >>),
      Str(<< "2", "0", "2", "3", "-", "0", "2", "-", "2", "9" >>),
      Str(Digits2024 \o << "-", "1", "3", "-", "0", "1" >>),
      Str(Digits2024 \o << "/", "1", "3", "/", "0", "1" >>),
      Str(Digits2024 \o << "U+5E74", "1", "3", "U+6708", "4", "5", "U+65E5" >>),
      Str(<< "0", "5", "/", "0", "1", "/" >> \o Digits2024),
      Str(Digits2024 \o << "0", "2", "3", "0" >>),
      Str(Digits2024 \o << "-", "0", "1" >>),
      Str(<< "1", ".", "5" >>),
      Str(<< "5", "U+65E5" >>),
      Str(<< "U+65E5" >>),
      Str(<< "a", "b", "c" >>),
      Str(<< " " >> \o Date20240105),
      Str(<< >>),
      Absent,
      Num(0),
      Num(20240105) }

ApplyNormalizeDate(value) ==
    /\ probe' = [fn |-> "_normalize_date", value |-> value,
                 raised |-> _normalize_date(value).raised,
                 out |-> _normalize_date(value).out]
    /\ UNCHANGED << engine, result, ncalls, threads, vendor_lexicon, norm_result, settings, lookups >>

NextPure ==
    \/ /\ probe = NoProbe
       /\ \E value \in ToFloatValues : ApplyToFloat(value)
    \/ /\ probe = NoProbe
       /\ \E value \in DateValues : ApplyNormalizeDate(value)
    \/ /\ probe = NoProbe
       /\ \E normalized \in ProfileFields : ApplyBuildProfile(normalized)
    \/ /\ probe = NoProbe
       /\ \E history \in MadHistories, value \in MadValues : ApplyMad(history, value)
    \/ /\ probe = NoProbe
       /\ \E enabled \in BOOLEAN, available \in BOOLEAN, history \in MlHistories,
             value \in { 10, 1010 }, verdict \in BOOLEAN :
             ApplyForest(MlConfig(enabled, available), history, value, verdict)

SpecPure == Init /\ [][NextPure]_vars

-----------------------------------------------------------------------------
(* NormalizationService: the vendor lexicon.  vendor_lexicon is the        *)
(* OrderedDict as the sequence of its items, oldest first.                 *)

(* re.sub(r"\s+", " ", vendor): every run of white space becomes one space.*)
RECURSIVE CollapseWhiteSpace(_)
CollapseWhiteSpace(s) ==
    IF s = << >> THEN << >>
    ELSE IF Head(s) \in WhiteSpace
         THEN << " " >> \o CollapseWhiteSpace(LStrip(s))
         ELSE << Head(s) >> \o CollapseWhiteSpace(Tail(s))

(* _sanitize_vendor: None for a falsy value; re.sub on a number raises     *)
(* TypeError; None again when nothing but white space is left.             *)
_sanitize_vendor(vendor) ==
    IF ~Truthy(vendor) THEN [raised |-> FALSE, value |-> NoneStr]
    ELSE IF vendor.k = "num" THEN [raised |-> TRUE, value |-> NoneStr]
    ELSE LET sanitized == Strip(CollapseWhiteSpace(vendor.s))
         IN [raised |-> FALSE,
             value |-> IF sanitized = << >> THEN NoneStr ELSE SomeStr(sanitized)]

Entry(alias, canonical) == [alias |-> alias, canonical |-> canonical]

(* _remember_vendor evicting the newest item instead of the oldest.        *)
_remember_vendor_EvictNewest(lexicon, alias, canonical) ==
    LET Other(e) == e.alias # alias
        inserted == Append(SelectSeq(lexicon, Other), Entry(alias, canonical))
    IN IF Len(inserted) > vendor_cache_limit
       THEN SubSeq(inserted, 1, Len(inserted) - 1) ELSE inserted

(* _remember_vendor: an item with this alias is popped, the item is put at *)
(* the end, and the first item is popped when the limit is exceeded.       *)
_remember_vendor(lexicon, alias, canonical) ==
    LET Other(e) == e.alias # alias
        inserted == Append(SelectSeq(lexicon, Other), Entry(alias, canonical))
    IN IF Len(inserted) > vendor_cache_limit THEN Tail(inserted) ELSE inserted

(* The lookup scoring the vendor against the oldest item only.             *)
Winner_OldestOnly(lexicon, vendor) ==
    LET scores == [i \in 1..Len(lexicon) |-> token_set_ratio(vendor, lexicon[i].alias)]
    IN [canonical |-> lexicon[1].canonical, score |-> scores[1]]

(* max(scores.items(), key=score): the first item with the highest score.  *)
Winner(lexicon, vendor) ==
    LET scores == [i \in 1..Len(lexicon) |-> token_set_ratio(vendor, lexicon[i].alias)]
        best == CHOOSE i \in 1..Len(lexicon) :
                    /\ \A j \in 1..Len(lexicon) : ~ScoreLess2(scores[i], scores[j])
                    /\ \A j \in 1..(i - 1) : ScoreLess2(scores[j], scores[i])
    IN [canonical |-> lexicon[best].canonical, score |-> scores[best]]

(* _canonicalize_vendor comparing with the duplicate threshold (88).       *)
_canonicalize_vendor_DuplicateThreshold(lexicon, vendor) ==
    LET sv == _sanitize_vendor(vendor)
        w == Winner(lexicon, sv.value.s)
    IN IF sv.raised
       THEN [raised |-> TRUE, output |-> NoneStr, hit |-> FALSE, lexicon |-> lexicon]
       ELSE IF ~sv.value.some
       THEN [raised |-> FALSE, output |-> NoneStr, hit |-> FALSE, lexicon |-> lexicon]
       ELSE IF lexicon # << >> /\ ~ScoreLess(w.score, anomaly_duplicate_vendor_similarity)
       THEN [raised |-> FALSE, output |-> SomeStr(w.canonical), hit |-> TRUE,
             lexicon |-> lexicon]
       ELSE [raised |-> FALSE, output |-> sv.value, hit |-> FALSE,
             lexicon |-> _remember_vendor(lexicon, sv.value.s, sv.value.s)]

(* _canonicalize_vendor: what it returns or raises, whether an item of the *)
(* lexicon was chosen, and the lexicon afterwards.  A hit returns without  *)
(* touching the lexicon (line 49).                                         *)
_canonicalize_vendor(lexicon, vendor) ==
    LET sv == _sanitize_vendor(vendor)
        w == Winner(lexicon, sv.value.s)
    IN IF sv.raised
       THEN [raised |-> TRUE, output |-> NoneStr, hit |-> FALSE, lexicon |-> lexicon]
       ELSE IF ~sv.value.some
       THEN [raised |-> FALSE, output |-> NoneStr, hit |-> FALSE, lexicon |-> lexicon]
       ELSE IF lexicon # << >> /\ ScoreGreater(w.score, CanonicalScore)
       THEN [raised |-> FALSE, output |-> SomeStr(w.canonical), hit |-> TRUE,
             lexicon |-> lexicon]
       ELSE [raised |-> FALSE, output |-> sv.value, hit |-> FALSE,
             lexicon |-> _remember_vendor(lexicon, sv.value.s, sv.value.s)]

(* One _canonicalize_vendor call.                                          *)
CanonicalizeVendor(vendor) ==
    /\ \E out \in { _canonicalize_vendor(vendor_lexicon, vendor) } :
         /\ vendor_lexicon' = out.lexicon
         /\ norm_result' =
              [n |-> norm_result.n + 1, op |-> "_canonicalize_vendor", input |-> vendor,
               raised |-> out.raised, output |-> out.output, hit |-> out.hit,
               log |-> IF _sanitize_vendor(vendor).value.some
                       THEN Append(norm_result.log, _sanitize_vendor(vendor).value.s)
                       ELSE norm_result.log]
    /\ UNCHANGED << engine, result, ncalls, threads, probe, settings, lookups >>

(* Vendor strings: every one is a single token once sanitized, which is    *)
(* the case token_set_ratio above computes.                                *)
Vendor1 == << "a", "b", "c", "d", "e" >>
Vendor1Long == << "a", "b", "c", "d", "e", "f" >>
Vendor1Short == << "a", "b", "c", "d" >>
Vendor2 == << "m", "m" >>
Vendor3 == << "z", "z" >>
Vendor4Padded == << "\t", "k", "k", " ", " " >>
Blank == << " ", "\t" >>

NormVendors ==
    { Str(Vendor1), Str(Vendor1Long), Str(Vendor1Short), Str(Vendor2), Str(Vendor3),
      Str(Vendor4Padded), Str(Blank), Absent, Num(7) }

MaxNormCalls == vendor_cache_limit + 2

NextNorm ==
    \E vendor \in NormVendors :
        norm_result.n < MaxNormCalls /\ CanonicalizeVendor(vendor)

SpecNorm == Init /\ [][NextNorm]_vars

-----------------------------------------------------------------------------
(* Concurrent _canonicalize_vendor calls on the one NormalizationService.  *)
(* A call is the lookup of lines 41-49 followed by the statements of       *)
(* _remember_vendor, each of them one step: the membership test (55), pop  *)
(* (56), the assignment (57), the length check (58) and popitem (59).      *)

HasAlias(lexicon, alias) == \E i \in 1..Len(lexicon) : lexicon[i].alias = alias

(* OrderedDict.__setitem__: an alias that is present keeps its position.   *)
SetItem(lexicon, alias, canonical) ==
    IF HasAlias(lexicon, alias)
    THEN [i \in 1..Len(lexicon) |->
            IF lexicon[i].alias = alias THEN Entry(alias, canonical) ELSE lexicon[i]]
    ELSE Append(lexicon, Entry(alias, canonical))

(* The sanitized vendor of the call thread t has in flight.                *)
Alias(t) == _sanitize_vendor(lookups[t].vendor).value.s

(* The call of thread t returns or raises: its outcome becomes the latest  *)
(* outcome of the service.                                                 *)
Completed(vendor, raised, output, hit) ==
    [norm_result EXCEPT !.n = @ + 1, !.op = "_canonicalize_vendor", !.input = vendor,
                        !.raised = raised, !.output = output, !.hit = hit]

InFlight == Cardinality({ t \in LookupThreads : lookups[t].pc # "idle" })

(* Another thread is about to change the lexicon.                          *)
MutationPending(t) ==
    \E u \in LookupThreads \ { t } : lookups[u].pc \in { "pop", "insert", "popitem" }

(* Lines 41-49.  The comprehension iterates over the items, and an         *)
(* OrderedDict iterator raises RuntimeError when the dictionary is changed *)
(* between two of its items; otherwise the scores are those of the lexicon *)
(* as it stands.                                                           *)
Lookup(t, vendor) ==
    /\ lookups[t].pc = "idle"
    /\ norm_result.n + InFlight < MaxLookupCalls
    /\ \E sv \in { _sanitize_vendor(vendor) } :
         \/ /\ sv.raised
            /\ norm_result' = Completed(vendor, TRUE, NoneStr, FALSE)
            /\ lookups' = [lookups EXCEPT ![t] = IdleLookup]
         \/ /\ ~sv.raised /\ ~sv.value.some
            /\ norm_result' = Completed(vendor, FALSE, NoneStr, FALSE)
            /\ lookups' = [lookups EXCEPT ![t] = IdleLookup]
         \/ /\ ~sv.raised /\ sv.value.some
            /\ vendor_lexicon # << >> /\ MutationPending(t)
            /\ norm_result' = Completed(vendor, TRUE, NoneStr, FALSE)
            /\ lookups' = [lookups EXCEPT ![t] = IdleLookup]
         \/ /\ ~sv.raised /\ sv.value.some
            /\ IF /\ vendor_lexicon # << >>
                  /\ ScoreGreater(Winner(vendor_lexicon, sv.value.s).score, CanonicalScore)
               THEN /\ norm_result' =
                         Completed(vendor, FALSE,
                                   SomeStr(Winner(vendor_lexicon, sv.value.s).canonical), TRUE)
                    /\ lookups' = [lookups EXCEPT ![t] = IdleLookup]
               ELSE /\ norm_result' = norm_result
                    /\ lookups' = [lookups EXCEPT ![t] =
                                     [pc |-> "member", vendor |-> vendor, popped |-> FALSE]]
    /\ UNCHANGED << engine, result, ncalls, threads, vendor_lexicon, probe, settings >>

(* Line 55: if alias in self.vendor_lexicon.                               *)
Member(t) ==
    /\ lookups[t].pc = "member"
    /\ lookups' = [lookups EXCEPT ![t].pc =
                     IF HasAlias(vendor_lexicon, Alias(t)) THEN "pop" ELSE "insert"]
    /\ UNCHANGED << engine, result, ncalls, threads, vendor_lexicon, norm_result, probe,
                    settings >>

(* Line 56: self.vendor_lexicon.pop(alias), KeyError when the alias has    *)
(* gone since the membership test.                                         *)
Pop(t) ==
    /\ lookups[t].pc = "pop"
    /\ LET Other(e) == e.alias # Alias(t)
       IN IF HasAlias(vendor_lexicon, Alias(t))
          THEN /\ vendor_lexicon' = SelectSeq(vendor_lexicon, Other)
               /\ norm_result' = norm_result
               /\ lookups' = [lookups EXCEPT ![t].pc = "insert"]
          ELSE /\ vendor_lexicon' = vendor_lexicon
               /\ norm_result' = Completed(lookups[t].vendor, TRUE, NoneStr, FALSE)
               /\ lookups' = [lookups EXCEPT ![t] = IdleLookup]
    /\ UNCHANGED << engine, result, ncalls, threads, probe, settings >>

(* Line 57: self.vendor_lexicon[alias] = canonical.                        *)
InsertItem(t) ==
    /\ lookups[t].pc = "insert"
    /\ vendor_lexicon' = SetItem(vendor_lexicon, Alias(t), Alias(t))
    /\ lookups' = [lookups EXCEPT ![t].pc = "check"]
    /\ UNCHANGED << engine, result, ncalls, threads, norm_result, probe, settings >>

(* The length check popping only when the limit is exceeded by one.        *)
CheckLength_ExceededByOne(t) ==
    /\ lookups[t].pc = "check"
    /\ IF Len(vendor_lexicon) = vendor_cache_limit + 1
       THEN /\ norm_result' = norm_result
            /\ lookups' = [lookups EXCEPT ![t].pc = "popitem"]
       ELSE /\ norm_result' = Completed(lookups[t].vendor, FALSE, SomeStr(Alias(t)), FALSE)
            /\ lookups' = [lookups EXCEPT ![t] = IdleLookup]
    /\ UNCHANGED << engine, result, ncalls, threads, vendor_lexicon, probe, settings >>

(* Line 58: if len(self.vendor_lexicon) > self.vendor_cache_limit; line 51 *)
(* returns the vendor when it is not.                                      *)
CheckLength(t) ==
    /\ lookups[t].pc = "check"
    /\ IF Len(vendor_lexicon) > vendor_cache_limit
       THEN /\ norm_result' = norm_result
            /\ lookups' = [lookups EXCEPT ![t].pc = "popitem"]
       ELSE /\ norm_result' = Completed(lookups[t].vendor, FALSE, SomeStr(Alias(t)), FALSE)
            /\ lookups' = [lookups EXCEPT ![t] = IdleLookup]
    /\ UNCHANGED << engine, result, ncalls, threads, vendor_lexicon, probe, settings >>

(* Line 59: self.vendor_lexicon.popitem(last=False), KeyError on an empty  *)
(* dictionary; then line 51 returns the vendor.                            *)
PopItem(t) ==
    /\ lookups[t].pc = "popitem"
    /\ IF vendor_lexicon = << >>
       THEN /\ vendor_lexicon' = vendor_lexicon
            /\ norm_result' = Completed(lookups[t].vendor, TRUE, NoneStr, FALSE)
            /\ lookups' = [lookups EXCEPT ![t] = IdleLookup]
       ELSE /\ vendor_lexicon' = Tail(vendor_lexicon)
            /\ norm_result' = Completed(lookups[t].vendor, FALSE, SomeStr(Alias(t)), FALSE)
            /\ lookups' = [lookups EXCEPT ![t] = [IdleLookup EXCEPT !.popped = TRUE]]
    /\ UNCHANGED << engine, result, ncalls, threads, probe, settings >>

LookupVendors ==
    { Str(Vendor1), Str(Vendor2), Str(Vendor3), Str(Vendor4Padded), Str(Blank), Num(7) }

NextLookup ==
    \E t \in LookupThreads :
        \/ \E vendor \in LookupVendors : Lookup(t, vendor)
        \/ Member(t)
        \/ Pop(t)
        \/ InsertItem(t)
        \/ CheckLength(t)
        \/ PopItem(t)

SpecLookup == Init /\ [][NextLookup]_vars

-----------------------------------------------------------------------------
(* Construction of the engine from settings whose capacities are drawn     *)
(* from a set that holds negative numbers, and analyze on the engine so    *)
(* constructed.                                                            *)

MaxConfigCalls == 3

(* deque(maxlen=n) raises ValueError for a negative n.                     *)
DequeRejects(maxlen) == maxlen < 0

(* _run_amount_analyzers under the capacities of cfg.  The deque handed to *)
(* setdefault is built before setdefault runs, on every call that has an   *)
(* amount, so a negative vendor capacity raises here and creates no key.   *)
RunAmountAnalyzersWith(cfg, profile, vhist, ghist, verdict) ==
    IF ~profile.amount.some
    THEN [raised |-> FALSE, findings |-> << >>, vendor |-> vhist, global |-> ghist,
          previous_vendor_values |-> << >>, previous_global_values |-> << >>]
    ELSE IF DequeRejects(cfg.anomaly_vendor_history_limit)
    THEN [raised |-> TRUE, findings |-> << >>, vendor |-> vhist, global |-> ghist,
          previous_vendor_values |-> << >>, previous_global_values |-> << >>]
    ELSE LET amount == profile.amount.v
             vendor_key == VendorKey(profile)
             withKey == SetDefault(vhist, vendor_key)
             previous_vendor_values == withKey[vendor_key]
             previous_global_values == ghist
         IN [raised |-> FALSE,
             findings |-> DetectorFindings(previous_vendor_values, previous_global_values,
                                           amount, verdict),
             vendor |-> [withKey EXCEPT ![vendor_key] =
                            DequeAppend(@, amount, cfg.anomaly_vendor_history_limit)],
             global |-> DequeAppend(ghist, amount, cfg.anomaly_global_history_limit),
             previous_vendor_values |-> previous_vendor_values,
             previous_global_values |-> previous_global_values]

(* analyze on an engine built from cfg.  The profile is already in the     *)
(* duplicate buffer when _run_amount_analyzers raises.                     *)
AnalyzeWith(cfg, eng, document_id, normalized, verdict) ==
    LET bp == _build_profile(document_id, normalized)
        profile == bp.profile
        dd == _detect_duplicates(eng.duplicate_profiles, profile)
        ra == RunAmountAnalyzersWith(cfg, profile, eng.vendor_amount_history,
                                     eng.global_amount_history, verdict)
    IN IF bp.raised
       THEN [result |-> Raised(document_id, bp.exc, FALSE, NoProfile), engine |-> eng]
       ELSE IF dd.raised
       THEN [result |-> Raised(document_id, "TypeError", TRUE, profile), engine |-> eng]
       ELSE IF ra.raised
       THEN [result |-> Raised(document_id, "ValueError", TRUE, profile),
             engine |-> Engine(dd.buffer, eng.deque_state + 1,
                               eng.vendor_amount_history, eng.global_amount_history)]
       ELSE [result |-> Returned(document_id, profile,
                                 ra.findings \o _evaluate_rules(profile), dd.matches,
                                 ra.previous_vendor_values, ra.previous_global_values),
             engine |-> Engine(dd.buffer, eng.deque_state + 1, ra.vendor, ra.global)]

(* AnomalyDetectionService(): __init__ builds the global window from the   *)
(* global capacity and nothing from the vendor capacity.                   *)
Construct(vendor_limit, global_limit) ==
    /\ settings.status = "unbuilt"
    /\ settings' = Settings(IF DequeRejects(global_limit) THEN "rejected" ELSE "ready",
                            vendor_limit, global_limit)
    /\ UNCHANGED << engine, result, ncalls, threads, vendor_lexicon, norm_result, probe, lookups >>

ConfiguredAnalyze(document_id, normalized) ==
    /\ settings.status = "ready"
    /\ \E verdict \in Verdicts(CurrentEngine, document_id, normalized) :
         \E out \in { AnalyzeWith(settings, CurrentEngine, document_id, normalized, verdict) } :
            /\ result' = out.result
            /\ duplicate_profiles' = out.engine.duplicate_profiles
            /\ deque_state' = out.engine.deque_state
            /\ vendor_amount_history' = out.engine.vendor_amount_history
            /\ global_amount_history' = out.engine.global_amount_history
    /\ ncalls' = ncalls + 1
    /\ UNCHANGED << threads, vendor_lexicon, norm_result, probe, settings, lookups >>

ConfigLimits == { -1, 0, 1, 2 }

InitConfig ==
    /\ duplicate_profiles = << >>
    /\ deque_state = 0
    /\ global_amount_history = << >>
    /\ vendor_amount_history = << >>
    /\ result = NoResult
    /\ ncalls = 0
    /\ threads = [t \in Threads |-> IdleThread]
    /\ vendor_lexicon = << >>
    /\ norm_result = NoNormResult
    /\ probe = NoProbe
    /\ settings = NoSettings
    /\ lookups = [t \in LookupThreads |-> IdleLookup]

NextConfig ==
    \/ \E vendor_limit \in ConfigLimits, global_limit \in ConfigLimits :
          Construct(vendor_limit, global_limit)
    \/ \E normalized \in HistFields :
          ncalls < MaxConfigCalls /\ ConfiguredAnalyze(ncalls + 1, normalized)

SpecConfig == InitConfig /\ [][NextConfig]_vars

-----------------------------------------------------------------------------
(* Properties.                                                             *)

(* A step that is one completed sequential analyze call.                   *)
CallStep == ncalls' = ncalls + 1

Ids(profiles) == [i \in 1..Len(profiles) |-> profiles[i].document_id]

(* C1: analyze returns a result and no exception propagates out of it,     *)
(* whatever string, number or absent value each input field holds.         *)
C1_NeverRaises == ~result.raised

(* The duplicate rule as the specification states it: vendor similarity    *)
(* at least 88, both amounts present and within 0.5, dates within 3 days   *)
(* when both are present, tax amounts within 0.5 when both are present.    *)
DaysBetween(a, b) == Abs(a.t \div 2 - b.t \div 2)

MatchRule(a, b) ==
    /\ ~ScoreLess(token_set_ratio(a.normalized_vendor, b.normalized_vendor), 88)
    /\ a.amount.some /\ b.amount.some /\ Abs(a.amount.v - b.amount.v) <= 5
    /\ (a.issue_date.some /\ b.issue_date.some) => DaysBetween(a.issue_date, b.issue_date) <= 3
    /\ (a.tax_amount.some /\ b.tax_amount.some) => Abs(a.tax_amount.v - b.tax_amount.v) <= 5

(* C2: a call that returns lists exactly the buffered profiles with       *)
(* another id that satisfy the duplicate rule, for every present amount,   *)
(* 0 included.                                                             *)
C2_ListsExactlyTheMatches ==
    [][ (CallStep /\ ~result'.raised) =>
          LET Matches(b) == b.document_id # result'.document_id /\ MatchRule(result'.profile, b)
          IN result'.duplicates = Ids(SelectSeq(duplicate_profiles, Matches)) ]_vars

(* C3: duplicate symmetry.  When B then A were analysed on a fresh engine  *)
(* and analyze(A) reported B, analysing A then B on a fresh engine makes   *)
(* analyze(B) report A.                                                    *)
C3_Symmetry ==
    (/\ ncalls = 2 /\ Len(duplicate_profiles) = 2 /\ ~result.raised
     /\ duplicate_profiles[1].document_id # duplicate_profiles[2].document_id
     /\ result.duplicates = << duplicate_profiles[1].document_id >>)
    => LET b == duplicate_profiles[1]
           a == duplicate_profiles[2]
           first == _detect_duplicates(<< >>, a)
           second == _detect_duplicates(first.buffer, b)
       IN ~second.raised /\ second.matches = << a.document_id >>

(* C6: a call that returns never lists its own document id, lists only     *)
(* ids of profiles that were in the buffer before the call, at most one    *)
(* per buffered profile, and lists nothing when the buffer was empty.      *)
C6_QueryBeforeRecord ==
    [][ (CallStep /\ ~result'.raised) =>
          /\ \A k \in 1..Len(result'.duplicates) :
               /\ result'.duplicates[k] # result'.document_id
               /\ \E i \in 1..Len(duplicate_profiles) :
                    duplicate_profiles[i].document_id = result'.duplicates[k]
          /\ Len(result'.duplicates) <= Len(duplicate_profiles)
          /\ (ncalls = 0 => result'.duplicates = << >>) ]_vars

(* A call reported a duplicate while a matching profile with its own id    *)
(* was in the buffer and was not listed.                                   *)
C6_Witness ==
    /\ result.called /\ ~result.raised /\ result.duplicates # << >>
    /\ \A k \in 1..Len(result.duplicates) : result.duplicates[k] # result.document_id
    /\ \E i \in 1..(Len(duplicate_profiles) - 1) :
         /\ duplicate_profiles[i].document_id = result.document_id
         /\ _is_duplicate(result.profile, duplicate_profiles[i]) = "match"

(* C7: every call records the profile it built exactly once, at the end of *)
(* the buffer, the oldest profile leaving on overflow.                     *)
C7_EveryCallRecorded ==
    [][ (CallStep /\ result'.built) =>
          duplicate_profiles' =
              LastN(Append(duplicate_profiles, result'.profile), DUPLICATE_BUFFER_LIMIT) ]_vars

(* C8: every call whose amount is present appends it to the global window  *)
(* and to the window of its vendor key, the oldest value leaving on        *)
(* overflow.                                                               *)
C8_WindowsTrackAmounts ==
    [][ (CallStep /\ result'.built /\ result'.profile.amount.some) =>
          LET key == VendorKey(result'.profile)
              amount == result'.profile.amount.v
          IN /\ global_amount_history' =
                    LastN(Append(global_amount_history, amount), anomaly_global_history_limit)
             /\ key \in DOMAIN vendor_amount_history'
             /\ vendor_amount_history'[key] =
                    LastN(Append(PriorVendorValues(vendor_amount_history, result'.profile), amount),
                          anomaly_vendor_history_limit) ]_vars

RECURSIVE SumOver(_, _)
SumOver(f, keys) ==
    IF keys = {} THEN 0
    ELSE LET k == CHOOSE x \in keys : TRUE IN f[k] + SumOver(f, keys \ { k })

(* The amounts retained across all history windows.                        *)
RECURSIVE TotalOver(_, _)
TotalOver(f, keys) ==
    IF keys = {} THEN 0
    ELSE LET k == CHOOSE x \in keys : TRUE IN Len(f[k]) + TotalOver(f, keys \ { k })

TotalRetained ==
    Len(global_amount_history) + TotalOver(vendor_amount_history, DOMAIN vendor_amount_history)

(* C9: the number of amounts retained across the global window and all     *)
(* vendor windows stays within the configured capacities, however many     *)
(* distinct vendors were analysed.                                         *)
C9_TotalBounded ==
    TotalRetained <= anomaly_global_history_limit + anomaly_vendor_history_limit

(* C10: the detectors of a call judge its amount against the vendor and    *)
(* global windows as they were before the call.                            *)
DetectorTags == { "z_vendor", "z_global", "mad", "iforest" }
IsDetectorTag(x) == x \in DetectorTags

C10_PriorBaseline ==
    [][ (CallStep /\ ~result'.raised /\ result'.profile.amount.some) =>
          LET prior_vendor == PriorVendorValues(vendor_amount_history, result'.profile)
              prior_global == global_amount_history
          IN /\ result'.previous_vendor_values = prior_vendor
             /\ result'.previous_global_values = prior_global
             /\ \E verdict \in ForestVerdicts(prior_vendor) :
                  SelectSeq(result'.anomalies, IsDetectorTag) =
                      DetectorFindings(prior_vendor, prior_global,
                                       result'.profile.amount.v, verdict) ]_vars

(* The vendor z-score fired on a call that found its vendor window full,   *)
(* and would not have fired had the new amount been part of the baseline.  *)
C10_Witness ==
    /\ result.called /\ ~result.raised /\ result.profile.amount.some
    /\ Len(result.previous_vendor_values) = anomaly_vendor_history_limit
    /\ \E k \in 1..Len(result.anomalies) : result.anomalies[k] = "z_vendor"
    /\ ~_z_score_alert(vendor_amount_history[VendorKey(result.profile)], result.profile.amount.v)

HasTag(anomalies, tag) == \E k \in 1..Len(anomalies) : anomalies[k] = tag

(* n * n times the population variance of h, as the sum of the squared     *)
(* differences of all pairs of samples.                                    *)
PairSpread(h) ==
    LET pairs == { << i, j >> \in (1..Len(h)) \X (1..Len(h)) : i < j }
        sq == [q \in pairs |-> (h[q[1]] - h[q[2]]) * (h[q[1]] - h[q[2]])]
    IN SumOver(sq, pairs)

(* |value - mean| / std > 2.5, a standard deviation of 0 counting as 1.0.  *)
ZExceeds(h, value) ==
    LET n == Len(h)
        off == Abs(n * value - Sum(h))
        spread == PairSpread(h)
    IN IF spread = 0 THEN 2 * off > 5 * 10 * n
       ELSE 4 * off * off > 25 * spread

(* C11: a call that returns with a present amount carries the vendor       *)
(* z-score finding exactly when its vendor window held at least 5 prior    *)
(* samples and |value - mean| / std > 2.5 over them (std 0 counting as     *)
(* 1.0); in particular never with fewer than 5 prior samples, and always   *)
(* for the value v + 100 after exactly 5 prior samples all equal to v.     *)
C11_VendorZScore ==
    [][ (CallStep /\ ~result'.raised /\ result'.profile.amount.some) =>
          LET prior == PriorVendorValues(vendor_amount_history, result'.profile)
              value == result'.profile.amount.v
              fired == HasTag(result'.anomalies, "z_vendor")
          IN /\ fired <=> (Len(prior) >= 5 /\ ZExceeds(prior, value))
             /\ Len(prior) < 5 => ~fired
             /\ (/\ Len(prior) = 5
                 /\ \A i \in 1..5 : prior[i] = prior[1]
                 /\ value = prior[1] + 1000) => fired ]_vars

(* The value v + 100 arrived after exactly 5 prior samples of its vendor,  *)
(* all equal to v, and the vendor z-score finding was produced.            *)
C11_Witness ==
    /\ result.called /\ ~result.raised /\ result.profile.amount.some
    /\ Len(result.previous_vendor_values) = 5
    /\ \A i \in 1..5 : result.previous_vendor_values[i] = result.profile.amount.v - 1000
    /\ HasTag(result.anomalies, "z_vendor")

(* The k-th smallest sample of h, found by counting.                       *)
OrderStat(h, k) ==
    CHOOSE x \in { h[i] : i \in 1..Len(h) } :
        /\ Cardinality({ i \in 1..Len(h) : h[i] < x }) < k
        /\ Cardinality({ i \in 1..Len(h) : h[i] <= x }) >= k

(* Twice the median of a non-empty h.                                      *)
TwiceMedian(h) ==
    LET n == Len(h)
    IN IF n % 2 = 1 THEN 2 * OrderStat(h, (n + 1) \div 2)
       ELSE OrderStat(h, n \div 2) + OrderStat(h, n \div 2 + 1)

(* |value - median| / (1.4826 * MAD) > 3.5, a MAD of 0 counting as 1.0:    *)
(* with m2 twice the median and d4 four times the MAD (1.0 is 10 tenths),  *)
(* 10000 * |2 * value - m2| / 2 > 3.5 * 14826 * d4 / 4.                    *)
MadExceeds(h, value) ==
    LET m2 == TwiceMedian(h)
        d4 == TwiceMedian([i \in 1..Len(h) |-> Abs(2 * h[i] - m2)])
    IN 20000 * Abs(2 * value - m2) > 51891 * (IF d4 = 0 THEN 40 ELSE d4)

(* C12: the MAD finding is produced exactly when the history holds at      *)
(* least 8 samples and |value - median| / (1.4826 * MAD) > 3.5 (MAD 0      *)
(* counting as 1.0): never with fewer than 8 samples, and always for the   *)
(* value v + 100 after 8 samples all equal to v.                           *)
C12_MadFinding ==
    probe.fn = "_mad_alert" =>
      LET h == probe.history
      IN /\ probe.fired <=> (Len(h) >= 8 /\ MadExceeds(h, probe.value))
         /\ Len(h) < 8 => ~probe.fired
         /\ (/\ Len(h) = 8
             /\ \A i \in 1..8 : h[i] = h[1]
             /\ probe.value = h[1] + 1000) => probe.fired

(* The finding was produced for v + 100 after 8 samples all equal to v.    *)
C12_Witness ==
    /\ probe.fn = "_mad_alert"
    /\ Len(probe.history) = 8
    /\ \A i \in 1..8 : probe.history[i] = probe.value - 1000
    /\ probe.fired

(* C13: with the ML flag off or the IsolationForest class unavailable the  *)
(* ML detector returns no finding and does not raise, for every history    *)
(* and value; a model is fitted exactly when the flag is on, the class is  *)
(* available and the history holds at least 25 samples.                    *)
C13_ForestGated ==
    probe.fn = "_isolation_forest_alert" =>
      /\ (~probe.ml.enable_anomaly_ml \/ ~probe.ml.IsolationForest) =>
            (~probe.out.finding /\ ~probe.out.raised /\ ~probe.out.fitted)
      /\ probe.out.fitted <=> (/\ probe.ml.enable_anomaly_ml
                               /\ probe.ml.IsolationForest
                               /\ Len(probe.history) >= 25)
      /\ probe.out.finding => probe.out.fitted

(* With the flag off, a history of at least 25 samples and a value the     *)
(* model would call anomalous gave no finding.                             *)
C13_Witness ==
    /\ probe.fn = "_isolation_forest_alert"
    /\ ~probe.ml.enable_anomaly_ml /\ probe.ml.IsolationForest
    /\ Len(probe.history) >= 25 /\ probe.verdict
    /\ ~probe.out.finding /\ ~probe.out.raised

IsRuleTag(x) == \E k \in 1..Len(RuleNames) : RuleNames[k] = x

RuleIndex(tag) == CHOOSE k \in 1..Len(RuleNames) : RuleNames[k] = tag

(* C14: in a call that returns, a rule whose predicate raises yields no    *)
(* finding, every other rule yields its finding exactly when its predicate *)
(* is true, and the rule findings come in rule-definition order.           *)
C14_RulesIsolated ==
    [][ (CallStep /\ ~result'.raised) =>
          LET found == SelectSeq(result'.anomalies, IsRuleTag)
          IN /\ \A k \in 1..Len(RuleNames) :
                  HasTag(found, RuleNames[k]) <=>
                      Predicate(RuleNames[k], result'.profile) = "true"
             /\ \A i, j \in 1..Len(found) :
                  i < j => RuleIndex(found[i]) < RuleIndex(found[j]) ]_vars

(* A call returned although the predicate of one rule raised, and carries  *)
(* the findings of two other rules.                                        *)
C14_Witness ==
    /\ result.called /\ ~result.raised
    /\ \E k \in 1..Len(RuleNames) : Predicate(RuleNames[k], result.profile) = "raise"
    /\ HasTag(result.anomalies, "tax_gt_total")
    /\ HasTag(result.anomalies, "tax_ratio_high")

(* C15: after every call whose tax amount and amount are both present with *)
(* the tax amount greater, the anomalies hold the tax-greater-than-total    *)
(* finding, whatever the engine state and the other fields.                *)
C15_TaxGreaterAlwaysReported ==
    (/\ result.called /\ result.built
     /\ result.profile.tax_amount.some /\ result.profile.amount.some
     /\ result.profile.tax_amount.v > result.profile.amount.v)
        => HasTag(result.anomalies, "tax_gt_total")

(* tax / amount > 0.17 for a non-zero amount.                              *)
RatioAboveUpper(tax, amount) ==
    IF amount > 0 THEN 100 * tax > 17 * amount ELSE 100 * tax < 17 * amount

(* C16: in a call that returns, the ratio tax / amount is defined when the *)
(* amount is present and non-zero and the tax is present; the upper-bound  *)
(* finding is produced exactly when the ratio is defined and > 0.17, the   *)
(* lower-bound finding exactly when the amount is > 200 and the ratio is   *)
(* defined and < 0; a call whose amount is absent or zero does not raise   *)
(* once its profile is built and carries neither finding.                  *)
C16_TaxRatioFindings ==
    [][ (CallStep /\ result'.built) =>
          LET amount == result'.profile.amount
              tax == result'.profile.tax_amount
              defined == amount.some /\ amount.v # 0 /\ tax.some
              high == HasTag(result'.anomalies, "tax_ratio_high")
              low == HasTag(result'.anomalies, "tax_ratio_low")
          IN /\ ~result'.raised =>
                  /\ high <=> (defined /\ RatioAboveUpper(tax.v, amount.v))
                  /\ low <=> (defined /\ amount.v > 2000 /\ tax.v < 0)
             /\ (~amount.some \/ amount.v = 0) =>
                  (~result'.raised /\ ~high /\ ~low) ]_vars

(* The lower-bound finding was produced for an amount above 200, and not   *)
(* the upper-bound one.                                                    *)
C16_Witness ==
    /\ result.called /\ ~result.raised
    /\ result.profile.amount.some /\ result.profile.amount.v > 2000
    /\ result.profile.tax_amount.some /\ result.profile.tax_amount.v < 0
    /\ HasTag(result.anomalies, "tax_ratio_low")
    /\ ~HasTag(result.anomalies, "tax_ratio_high")

(* A step that is one _canonicalize_vendor call.                           *)
VendorStep == norm_result'.n = norm_result.n + 1 /\ norm_result'.op = "_canonicalize_vendor"

Aliases(lexicon) == [i \in 1..Len(lexicon) |-> lexicon[i].alias]

(* The similarity of two vendor strings exceeds 90.                        *)
Similar(a, b) ==
    LET sc == token_set_ratio(a, b) IN sc.num > 90 * sc.den

(* The lexicon with the entry of the given canonical name moved to the     *)
(* most recent position.                                                   *)
Touched(lexicon, canonical) ==
    LET Is(e) == e.canonical = canonical
        IsNot(e) == e.canonical # canonical
    IN SelectSeq(lexicon, IsNot) \o SelectSeq(lexicon, Is)

(* C17: a call that hits an entry of the lexicon moves that entry to the   *)
(* most recent position, so that eviction removes the least recently used  *)
(* entry.                                                                  *)
C17_HitTouchesEntry ==
    [][ (VendorStep /\ norm_result'.hit) =>
          vendor_lexicon' = Touched(vendor_lexicon, norm_result'.output.s) ]_vars

PairwiseDissimilar(names) ==
    \A i, j \in 1..Len(names) : i < j => ~Similar(names[i], names[j])

(* C18: with capacity c, after c + 1 pairwise dissimilar vendor strings on *)
(* an empty lexicon exactly the c most recent are cached, the first being  *)
(* evicted; normalizing the first again returns it and registers it anew   *)
(* at the most recent position, evicting the then-oldest entry.            *)
C18_CapacityEviction ==
    LET c == vendor_cache_limit
        log == norm_result.log
    IN /\ (Len(log) = c + 1 /\ PairwiseDissimilar(log)) =>
            /\ Aliases(vendor_lexicon) = SubSeq(log, 2, c + 1)
            /\ \A i \in 1..c : vendor_lexicon[i].canonical = vendor_lexicon[i].alias
       /\ (/\ Len(log) = c + 2
           /\ PairwiseDissimilar(SubSeq(log, 1, c + 1))
           /\ log[c + 2] = log[1]
           /\ norm_result.input.k = "str"
           /\ Strip(CollapseWhiteSpace(norm_result.input.s)) = log[1]) =>
            /\ norm_result.output = SomeStr(log[1])
            /\ ~norm_result.hit
            /\ Aliases(vendor_lexicon) = SubSeq(log, 3, c + 2)

(* The first of c + 1 pairwise dissimilar strings was normalized again     *)
(* after its eviction and came back as a new entry.                        *)
C18_Witness ==
    LET c == vendor_cache_limit
        log == norm_result.log
    IN /\ Len(log) = c + 2
       /\ PairwiseDissimilar(SubSeq(log, 1, c + 1))
       /\ log[c + 2] = log[1]
       /\ norm_result.output = SomeStr(log[1])
       /\ ~norm_result.hit
       /\ Len(vendor_lexicon) = c
       /\ Last(vendor_lexicon) = Entry(log[1], log[1])

(* The outcome the contract of _canonicalize_vendor gives a call on a      *)
(* non-empty raw string, registered being the string a miss registers and  *)
(* returns: the best-scoring entry when its score exceeds 90 and the       *)
(* lexicon left alone, otherwise registered appended as its own canonical  *)
(* name with the oldest entry evicted over capacity.                       *)
VendorContract(lexicon, sanitized, registered, output, after) ==
    \E score \in { [i \in 1..Len(lexicon) |-> token_set_ratio(sanitized, lexicon[i].alias)] } :
      LET best == { i \in 1..Len(lexicon) :
                      \A j \in 1..Len(lexicon) :
                          score[j].num * score[i].den <= score[i].num * score[j].den }
      IN IF \E i \in best : score[i].num > 90 * score[i].den
         THEN /\ \E i \in best : output = SomeStr(lexicon[i].canonical)
              /\ after = lexicon
         ELSE /\ output = SomeStr(registered)
              /\ after = LastN(Append(lexicon, Entry(registered, registered)),
                               vendor_cache_limit)

(* C19 as stated: on a miss the raw string itself is registered and        *)
(* returned.                                                               *)
C19_RegistersRaw ==
    [][ (VendorStep /\ norm_result'.input.k = "str" /\ norm_result'.input.s # << >>) =>
          LET raw == norm_result'.input.s
          IN VendorContract(vendor_lexicon, Strip(CollapseWhiteSpace(raw)), raw,
                            norm_result'.output, vendor_lexicon') ]_vars

(* C19: for a non-empty raw string whose whitespace-collapsed, trimmed     *)
(* form v is not empty: when the best score of v against the cached        *)
(* entries exceeds 90 the canonical name of a best entry is returned and   *)
(* the lexicon is unchanged; otherwise v (not raw) is registered as its    *)
(* own canonical name, the oldest entry is evicted over capacity, and v is *)
(* returned.  A raw string of white space only returns None and registers  *)
(* nothing.                                                                *)
C19_RegistersSanitized ==
    [][ (VendorStep /\ norm_result'.input.k = "str" /\ norm_result'.input.s # << >>) =>
          LET v == Strip(CollapseWhiteSpace(norm_result'.input.s))
          IN /\ ~norm_result'.raised
             /\ IF v = << >>
                THEN norm_result'.output = NoneStr /\ vendor_lexicon' = vendor_lexicon
                ELSE VendorContract(vendor_lexicon, v, v,
                                    norm_result'.output, vendor_lexicon') ]_vars

(* A raw string with surrounding white space missed a non-empty lexicon    *)
(* and was registered and returned in its trimmed form.                    *)
C19_Witness ==
    /\ norm_result.op = "_canonicalize_vendor" /\ norm_result.input.k = "str"
    /\ norm_result.input.s # Strip(CollapseWhiteSpace(norm_result.input.s))
    /\ ~norm_result.hit
    /\ norm_result.output = SomeStr(Strip(CollapseWhiteSpace(norm_result.input.s)))
    /\ Len(vendor_lexicon) > 1
    /\ Last(vendor_lexicon).alias = norm_result.output.s

(* C20: NormalizationService._to_float gives 1234.56 for "1,234.56" and    *)
(* for the yen sign U+00A5 followed by 1234.56, -1234.56 for "(1234.56)",  *)
(* and None for "abc", raising in none of the four cases.                  *)
C20_AmountExamples ==
    probe.fn = "NormalizationService._to_float" =>
      /\ ~probe.raised
      /\ probe.value = Str(<< "1", "," >> \o Tail(Amount123456)) => probe.out = Some(123456)
      /\ probe.value = Str(<< "U+00A5" >> \o Amount123456) => probe.out = Some(123456)
      /\ probe.value = Str(<< "(" >> \o Amount123456 \o << ")" >>) => probe.out = Some(-123456)
      /\ probe.value = Str(<< "a", "b", "c" >>) => probe.out = None

(* An ISO date string: "YYYY-MM-DD" with a month 01..12 and a day 01..31.  *)
IsIsoDateString(s) ==
    /\ Len(s) = 10 /\ s[5] = "-" /\ s[8] = "-"
    /\ \A i \in { 1, 2, 3, 4, 6, 7, 9, 10 } : s[i] \in Digits
    /\ IntVal(SubSeq(s, 6, 7)) \in 1..12
    /\ IntVal(SubSeq(s, 9, 10)) \in 1..31

(* C21: for a non-empty string raw, _normalize_date returns either an ISO  *)
(* date string or raw itself, character for character.                     *)
C21_IsoOrVerbatim ==
    (probe.fn = "_normalize_date" /\ probe.value.k = "str" /\ probe.value.s # << >>) =>
      /\ ~probe.raised
      /\ probe.out.some
      /\ IsIsoDateString(probe.out.s) \/ probe.out.s = probe.value.s

(* C22: an engine whose construction returned has no negative capacity,   *)
(* and no analyze call on it raises the ValueError of a rejected capacity. *)
C22_ConfigRejectedAtConstruction ==
    settings.status = "ready" =>
      /\ settings.anomaly_vendor_history_limit >= 0
      /\ settings.anomaly_global_history_limit >= 0
      /\ ~(result.raised /\ result.exc = "ValueError")

(* The input mapping with one key removed.                                 *)
OptionalFields == { "vendor_name", "total_amount", "tax_amount", "issue_date", "category" }
Without(normalized, field) == [normalized EXCEPT ![field] = Absent]

Elems(seq) == { seq[i] : i \in 1..Len(seq) }

(* What the call on the reduced input returns beyond what the call on the  *)
(* full input returned; a call that raises returns nothing.                *)
AddsAnomaly(reduced, full) ==
    ~reduced.raised /\ ~(Elems(reduced.anomalies) \subseteq Elems(full.anomalies))
AddsDuplicate(reduced, full) ==
    ~reduced.raised /\ ~(Elems(reduced.duplicates) \subseteq Elems(full.duplicates))

(* The outcome the same call would have had with one key removed.          *)
Reduced(normalized, field) ==
    analyze(CurrentEngine, ncalls + 1, Without(normalized, field), FALSE).result

(* C23 as stated: whichever optional key is removed from the input of an   *)
(* analyze call, the call on the reduced input returns no anomaly and no   *)
(* duplicate id that the call on the full input did not return.            *)
C23_RemovalNeverAdds ==
    [][\A normalized \in RuleFields :
          Analyze(ncalls + 1, normalized) =>
             \A field \in OptionalFields :
                /\ ~AddsAnomaly(Reduced(normalized, field), result')
                /\ ~AddsDuplicate(Reduced(normalized, field), result')]_vars

(* C23 amended: removing total_amount adds neither an anomaly nor a        *)
(* duplicate id, nor does removing category from an input that has no      *)
(* expense_category key; removing tax_amount adds no anomaly.              *)
C23_AmountCategoryTaxRemoval ==
    [][\A normalized \in RuleFields :
          Analyze(ncalls + 1, normalized) =>
             /\ \A field \in { "total_amount", "category" } :
                   (field = "category" => normalized.expense_category = Absent) =>
                      /\ ~AddsAnomaly(Reduced(normalized, field), result')
                      /\ ~AddsDuplicate(Reduced(normalized, field), result')
             /\ ~AddsAnomaly(Reduced(normalized, "tax_amount"), result')]_vars

(* A call that returned a rule finding and a duplicate id for a document   *)
(* with an amount and a tax amount: without the amount no rule would have  *)
(* made a finding.                                                         *)
C23_Witness ==
    /\ result.called /\ ~result.raised
    /\ result.profile.amount.some /\ result.profile.tax_amount.some
    /\ result.duplicates # << >>
    /\ \E i \in 1..Len(result.anomalies) : IsRuleTag(result.anomalies[i])
    /\ _evaluate_rules([result.profile EXCEPT !.amount = None]) = << >>

(* An optional amount that is missing or a finite number.                  *)
IsFinite(amount) == ~amount.some \/ "nonfinite" \notin DOMAIN amount

(* C24: every profile _build_profile returns has an amount and a tax       *)
(* amount that are missing or finite.                                      *)
C24_AmountsFinite ==
    (probe.fn = "_build_profile" /\ ~probe.raised) =>
      /\ IsFinite(probe.profile.amount)
      /\ IsFinite(probe.profile.tax_amount)

(* C25: a call appends its amount to the vendor window and to the global   *)
(* window only when its detectors have evaluated, that is, when the call   *)
(* has passed the step that evaluates them.                                *)
C25_AppendAfterDetectors ==
    [][\A t \in Threads :
          (AppendVendor(t) \/ AppendGlobal(t)) => threads[t].pc = "done"]_vars

(* How many items of a sequence satisfy a test on ids or values.           *)
CountIds(profiles, id) == Cardinality({ i \in 1..Len(profiles) : profiles[i].document_id = id })
CountOf(seq, x) == Cardinality({ i \in 1..Len(seq) : seq[i] = x })

(* A call made with an id that the duplicate buffer already holds, and     *)
(* that pushes no copy with that id out of the buffer.                     *)
RepeatCall ==
    /\ CallStep
    /\ CountIds(duplicate_profiles, result'.document_id) >= 1
    /\ \/ Len(duplicate_profiles) < DUPLICATE_BUFFER_LIMIT
       \/ Head(duplicate_profiles).document_id # result'.document_id

(* C26: a call that repeats a buffered id adds one more profile with that  *)
(* id to the buffer and, when its amount is present, appends the amount to *)
(* the global window and to its vendor window once more, and does not list *)
(* its own id; and every call that returns lists another id once per       *)
(* buffered profile with that id that _is_duplicate matches with it.       *)
C26_DoubleCounts ==
    [][ /\ (RepeatCall /\ result'.built) =>
             /\ CountIds(duplicate_profiles', result'.document_id)
                  = CountIds(duplicate_profiles, result'.document_id) + 1
             /\ result'.profile.amount.some =>
                  /\ global_amount_history' =
                       LastN(Append(global_amount_history, result'.profile.amount.v),
                             anomaly_global_history_limit)
                  /\ VendorKey(result'.profile) \in DOMAIN vendor_amount_history'
                  /\ vendor_amount_history'[VendorKey(result'.profile)] =
                       LastN(Append(PriorVendorValues(vendor_amount_history, result'.profile),
                                    result'.profile.amount.v),
                             anomaly_vendor_history_limit)
             /\ CountOf(result'.duplicates, result'.document_id) = 0
        /\ (CallStep /\ ~result'.raised) =>
             \A id \in DocIds \ { result'.document_id } :
                CountOf(result'.duplicates, id) =
                   Cardinality({ i \in 1..Len(duplicate_profiles) :
                                   /\ duplicate_profiles[i].document_id = id
                                   /\ _is_duplicate(result'.profile, duplicate_profiles[i])
                                        = "match" }) ]_vars

DetectorNames == { "z_vendor", "z_global", "mad", "iforest" }

AmountMissing(normalized) == ~_to_float(normalized.total_amount).some

C29_MissingAmountFrame ==
    [][\A normalized \in MissingFields :
          (AmountMissing(normalized) /\ Analyze(ncalls + 1, normalized)) =>
             /\ global_amount_history' = global_amount_history
             /\ vendor_amount_history' = vendor_amount_history
             /\ ~result'.raised
             /\ \A k \in 1..Len(result'.anomalies) : result'.anomalies[k] \notin DetectorNames
             /\ result'.duplicates = << >>
             /\ duplicate_profiles' =
                  LastN(Append(duplicate_profiles, result'.profile), DUPLICATE_BUFFER_LIMIT)
             /\ result'.profile.document_id = ncalls + 1
             /\ ~result'.profile.amount.some]_vars

(* C28: with _canonicalize_vendor calls interleaved at the statements of   *)
(* _remember_vendor, once every call has completed the lexicon holds at    *)
(* most vendor_cache_limit items.                                          *)
AllLookupsDone == \A t \in LookupThreads : lookups[t].pc = "idle"

C28_BoundAtQuiescence == AllLookupsDone => Len(vendor_lexicon) <= vendor_cache_limit

(* Every call has completed, the last calls of two threads popped the      *)
(* oldest item, and the lexicon is full.                                   *)
C28_Witness ==
    /\ AllLookupsDone
    /\ norm_result.n = MaxLookupCalls
    /\ Cardinality({ t \in LookupThreads : lookups[t].popped }) >= 2
    /\ Len(vendor_lexicon) = vendor_cache_limit

(* C30: on every lexicon a sequential run reaches and for every non-empty  *)
(* vendor string x, _canonicalize_vendor applied to what it returned for x *)
(* returns the same again, and that second call finds its argument in the  *)
(* lexicon (line 49), so it neither adds nor evicts an item.               *)
AsInput(output) == IF output.some THEN Str(output.s) ELSE Absent

VendorStrings == { x \in NormVendors : x.k = "str" /\ x.s # << >> }

C30_Idempotent ==
    \A x \in VendorStrings :
       \E r1 \in { _canonicalize_vendor(vendor_lexicon, x) } :
       \E r2 \in { _canonicalize_vendor(r1.lexicon, AsInput(r1.output)) } :
          /\ ~r1.raised /\ ~r2.raised
          /\ r2.output = r1.output
          /\ r2.lexicon = r1.lexicon
          /\ r1.output.some => r2.hit

(* A call was answered with an item of the full lexicon other than its own *)
(* string, and the next call, made with that answer, got it back.          *)
C30_Witness ==
    /\ norm_result.n >= 2
    /\ Len(vendor_lexicon) = vendor_cache_limit
    /\ norm_result.hit
    /\ norm_result.input = Str(norm_result.output.s)
    /\ Len(norm_result.log) >= 2
    /\ norm_result.log[Len(norm_result.log) - 1] # norm_result.output.s
    /\ _canonicalize_vendor(vendor_lexicon,
                            Str(norm_result.log[Len(norm_result.log) - 1])).output
         = norm_result.output

(* Concurrent calls.                                                       *)
AllDone == \A t \in Threads : threads[t].pc = "done"

FreshEngine == Engine(<< >>, 0, << >>, << >>)

Orders == { o \in [1..MaxThreads -> Threads] : \A i, j \in 1..MaxThreads : i # j => o[i] # o[j] }

(* The calls of the threads made one after the other in the given order    *)
(* on a fresh engine: the engine afterwards and the result of each call.   *)
RECURSIVE SerialOutcome(_, _)
SerialOutcome(order, k) ==
    IF k = 0 THEN [engine |-> FreshEngine, results |-> << >>]
    ELSE LET before == SerialOutcome(order, k - 1)
             th == threads[order[k]]
             out == analyze(before.engine, th.document_id, th.normalized, th.verdict)
         IN [engine |-> out.engine, results |-> Append(before.results, out.result)]

SameAsSerial(order) ==
    LET serial == SerialOutcome(order, MaxThreads)
    IN /\ \A k \in 1..MaxThreads :
            /\ serial.results[k].raised = threads[order[k]].raised
            /\ serial.results[k].anomalies = threads[order[k]].anomalies
            /\ serial.results[k].duplicates = threads[order[k]].duplicates
       /\ serial.engine.duplicate_profiles = duplicate_profiles
       /\ serial.engine.vendor_amount_history = vendor_amount_history
       /\ serial.engine.global_amount_history = global_amount_history

(* C4: when concurrent calls have all completed, none has raised and the   *)
(* results and the buffers are those of the same calls made in some serial *)
(* order.                                                                  *)
C4_Serializable ==
    AllDone => /\ \A t \in Threads : ~threads[t].raised
               /\ \E order \in Orders : SameAsSerial(order)

(* C5: when two concurrent calls have completed and their profiles match   *)
(* under the duplicate rule, at least one of them lists the other's        *)
(* document id.                                                            *)
C5_OneReportsTheOther ==
    AllDone =>
      \A a, b \in Threads :
        (a # b /\ MatchRule(threads[a].profile, threads[b].profile)) =>
          \/ \E k \in 1..Len(threads[a].duplicates) : threads[a].duplicates[k] = b
          \/ \E k \in 1..Len(threads[b].duplicates) : threads[b].duplicates[k] = a

====
